---- MODULE Spec2Model ----
(***************************************************************************)
(* devvalue: the usage ingestion and attribution engine.                   *)
(*                                                                         *)
(* Three layers of the program are modelled, each by its own              *)
(* specification over the same definitions of the dedup algorithm:         *)
(*                                                                         *)
(*   Spec       JsonlTokenSniffer with its files, byte offsets, read       *)
(*              passes, discovery scans, watchers and timer;               *)
(*   SpecDedup  JsonlTokenSniffer at the level of its 'line' handler:      *)
(*              start(), stop() and ingestParsed over any frame stream;    *)
(*   SpecExt    activate() of the extension: two sniffers, onUsage, the    *)
(*              branch sessions and the HEAD-session migration.            *)
(*                                                                         *)
(* One log line is one unit of file size: offsets count lines.             *)
(***************************************************************************)
EXTENDS Integers, Sequences, FiniteSets, TLC

VARIABLES
  running,      \* JsonlTokenSniffer.running
  pollTimer,    \* TRUE while the setInterval of start() is active
  fileOffsets,  \* JsonlTokenSniffer.fileOffsets: file -> lines already read
  watchers,     \* keys of JsonlTokenSniffer.watchers
  pending,      \* JsonlTokenSniffer.pending, a Map in insertion order
  emitted,      \* the 'usage' events emitted so far, in order
  fileLines,    \* the log files on disk: file -> its lines (parsed records)
  osWatch,      \* file -> number of open fs.FSWatcher objects on it
  notif,        \* file -> change notifications queued for delivery
  scans,        \* scanAndWatch invocations in flight
  passes,       \* readNewLines invocations started by watcher callbacks
  lineReads,    \* history: file -> per line, how many passes processed it
  log,          \* history: the frames ingested and the flushes of stop()
  started,      \* history: start() has been called at least once
  ext,          \* the state of activate(): sessions, dedup sets, sniffers
  faults,       \* history: I/O faults met, 'error' events, rejected promises
  eng,          \* the PtaFlowEngine and the clock of its caller
  calc          \* the CostCalculator, its arguments and its last result

snifferVars == <<running, pollTimer, fileOffsets, watchers, pending, emitted>>
ioVars      == <<fileLines, osWatch, notif, scans, passes, lineReads>>
auxVars     == <<faults, eng, calc>>
vars == <<running, pollTimer, fileOffsets, watchers, pending, emitted,
          fileLines, osWatch, notif, scans, passes, lineReads, log,
          started, ext, faults, eng, calc>>

(***************************************************************************)
(* Bounds.                                                                 *)
(***************************************************************************)
MaxAppends == 2    \* lines appended to the log files in Spec
MaxScans   == 2    \* scanAndWatch invocations in flight at once in SpecScans
MaxPasses  == 2    \* watcher-started read passes in flight at once
MaxNotif   == 2    \* change notifications queued per file
MaxOsWatch == 2    \* fs.FSWatcher objects open on one file
MaxFrames  == 4    \* frames delivered to the 'line' handler in SpecDedup
MaxStops   == 2    \* stop() calls on a running sniffer in SpecDedup
MaxXLines  == 3    \* frames delivered to the two sniffers in SpecExt
MaxFaults  == 2    \* I/O faults in SpecFault
MaxRawPasses == 2  \* read passes in SpecParse
MaxPassLines == 2  \* lines one read pass of SpecParse delivers
MaxEvents  == 5    \* recordEvent calls in SpecFlow
MaxResets  == 1    \* reset() calls in SpecFlow
MaxCostLines == 3  \* frames ingested in SpecCost
MaxLogLines == 2   \* lines of the log file in SpecRestart
MaxRestarts == 2   \* restarts of the extension in SpecRestart
MaxHistLines == 2  \* lines of one log file in SpecHist
MaxValLines == 2   \* lines of one log file in SpecValidate
MaxFocusEvents == 4   \* activity events in SpecFocus
MaxConfigChanges == 1 \* devvalue configuration changes in SpecFocus

Files   == {"f1", "f2"}
MIds    == {"m1", "m2"}
NULL    == "null"
NoFile  == "none"
NoUuid  == <<>>
ScanIds == 1..MaxScans
PassIds == 1..MaxPasses

\* <<inputTokens, outputTokens, cacheWriteTokens, cacheReadTokens>>
TokenVecs == {<<1, 1, 0, 0>>, <<1, 2, 1, 1>>}

(***************************************************************************)
(* Records.                                                                *)
(***************************************************************************)
TokenUsage(uuid, m, tok, branch) ==
  [uuid |-> uuid, messageId |-> m, tok |-> tok, branchName |-> branch]

ParsedRecord(m, stop, usage) ==
  [messageId |-> m, stopReason |-> stop, usage |-> usage]

\* The frames the sniffer-level specifications draw lines from.
Frames ==
  { ParsedRecord(m, s, TokenUsage(NoUuid, m, t, ""))
      : m \in MIds, s \in {NULL, "end_turn"}, t \in TokenVecs }

\* The lines Spec appends to its files.
PartialTok == <<1, 1, 0, 0>>
FinalTok   == <<1, 2, 1, 1>>
FileFrames ==
  { ParsedRecord("m1", NULL, TokenUsage(NoUuid, "m1", PartialTok, "")),
    ParsedRecord("m1", "end_turn", TokenUsage(NoUuid, "m1", FinalTok, "")) }

(***************************************************************************)
(* The pending Map: a sequence of records in insertion order.              *)
(***************************************************************************)
MapHas(map, m) == \E i \in 1..Len(map) : map[i].messageId = m

MapGet(map, m) ==
  map[CHOOSE i \in 1..Len(map) : map[i].messageId = m]

MapDelete(map, m) == SelectSeq(map, LAMBDA r : r.messageId # m)

\* Map.set: an existing key keeps its place, a new key goes last.
MapSet(map, rec) ==
  IF MapHas(map, rec.messageId)
  THEN [i \in 1..Len(map) |->
          IF map[i].messageId = rec.messageId THEN rec ELSE map[i]]
  ELSE Append(map, rec)

MapUsages(map) == [i \in 1..Len(map) |-> map[i].usage]

(***************************************************************************)
(* ingestParsed: the streaming dedup.  The state is <<pending, emitted>>.  *)
(***************************************************************************)
IngestWrongKeepsLarger(st, rec) ==
  IF rec.stopReason # NULL
  THEN <<MapDelete(st[1], rec.messageId), Append(st[2], rec.usage)>>
  ELSE IF MapHas(st[1], rec.messageId)
          /\ MapGet(st[1], rec.messageId).usage.tok[2] > rec.usage.tok[2]
       THEN st
       ELSE <<MapSet(st[1], rec), st[2]>>

IngestWrongFlushesOnFinal(st, rec) ==
  IF rec.stopReason # NULL
  THEN <<MapDelete(st[1], rec.messageId),
         st[2] \o MapUsages(SelectSeq(st[1],
                    LAMBDA r : r.messageId = rec.messageId))
               \o <<rec.usage>> >>
  ELSE <<MapSet(st[1], rec), st[2]>>

IngestParsed(st, rec) ==
  IF rec.stopReason # NULL
  THEN <<MapDelete(st[1], rec.messageId), Append(st[2], rec.usage)>>
  ELSE <<MapSet(st[1], rec), st[2]>>

RECURSIVE IngestAll(_, _)
IngestAll(st, lines) ==
  IF lines = <<>> THEN st
  ELSE IngestAll(IngestParsed(st, Head(lines)), Tail(lines))

(***************************************************************************)
(* stop(): the flush of the pending buffer.                                *)
(***************************************************************************)
StopFlush(map) == MapUsages(map)

(***************************************************************************)
(* The sniffer with its files (Spec).                                      *)
(*                                                                         *)
(* A scanAndWatch invocation is at "glob" (awaiting expandGlob), at "stat" *)
(* or "read" (inside the readNewLines it awaits) or at "watch": its read   *)
(* pass is over and the continuation that calls watchFile is queued as a   *)
(* microtask, so no other callback of the process runs before it; only     *)
(* another process can act (Append).  A read pass takes its offset when it *)
(* is called, the file size when stat answers, and reads the stream to the *)
(* end of the file as it is when the stream is read.                       *)
(***************************************************************************)
IdleScan == [pc |-> "idle", todo |-> <<>>, file |-> NoFile, offset |-> 0, size |-> 0]
\* A scan slot that is not in use: Spec and the specifications built on it
\* follow one scanAndWatch invocation at a time, SpecScans follows all.
OffScan == [IdleScan EXCEPT !.pc = "off"]
FirstScanOnly == [s \in ScanIds |-> IF s = 1 THEN IdleScan ELSE OffScan]
IdlePass == [pc |-> "idle", file |-> NoFile, offset |-> 0, size |-> 0]

\* expandGlob: the files matching the glob, in directory order.
GlobOrder == <<"f1", "f2">>

\* The for loop of scanAndWatch from `todo` on, up to its next await:
\* watched files are skipped, the first other file gets a read pass.
RECURSIVE ScanLoop(_, _, _)
ScanLoop(todo, w, offs) ==
  IF todo = <<>> THEN IdleScan
  ELSE IF Head(todo) \in w THEN ScanLoop(Tail(todo), w, offs)
  ELSE [pc |-> "stat", todo |-> Tail(todo), file |-> Head(todo),
        offset |-> offs[Head(todo)], size |-> 0]

FreeScans  == {s \in ScanIds : scans[s].pc = "idle"}
FreePasses == {p \in PassIds : passes[p].pc = "idle"}
LowestOf(S) == CHOOSE x \in S : \A y \in S : x <= y

NoMicro == \A s \in ScanIds : scans[s].pc # "watch"

RECURSIVE TotalLines(_)
TotalLines(S) ==
  IF S = {} THEN 0
  ELSE LET f == CHOOSE x \in S : TRUE
       IN Len(fileLines[f]) + TotalLines(S \ {f})

Min(a, b) == IF a < b THEN a ELSE b

TypeOK ==
  /\ running \in BOOLEAN
  /\ pollTimer \in BOOLEAN
  /\ watchers \subseteq Files
  /\ \A f \in Files : fileOffsets[f] \in 0..Len(fileLines[f])

SnifferInit ==
  /\ running = FALSE
  /\ pollTimer = FALSE
  /\ fileOffsets = [f \in Files |-> 0]
  /\ watchers = {}
  /\ pending = <<>>
  /\ emitted = <<>>
  /\ fileLines = [f \in Files |-> <<>>]
  /\ osWatch = [f \in Files |-> 0]
  /\ notif = [f \in Files |-> 0]
  /\ scans = FirstScanOnly
  /\ passes = [p \in PassIds |-> IdlePass]
  /\ lineReads = [f \in Files |-> <<>>]
  /\ log = <<>>
  /\ started = FALSE

\* No fault has happened; no engine and no calculator are under study.
NoFaults == [io |-> 0, errors |-> 0, rejections |-> 0]
AuxInit == faults = NoFaults /\ eng = <<>> /\ calc = <<>>

Init == SnifferInit /\ ext = <<>> /\ AuxInit

\* start(): a second start() of a running sniffer returns at once.
StartCore ==
  /\ running' = TRUE
  /\ pollTimer' = TRUE
  /\ started' = TRUE

Start ==
  /\ NoMicro
  /\ IF running
     THEN UNCHANGED vars
     ELSE /\ FreeScans # {}
          /\ StartCore
          /\ scans' = [scans EXCEPT ![LowestOf(FreeScans)] =
                         [IdleScan EXCEPT !.pc = "glob"]]
          /\ UNCHANGED <<fileOffsets, watchers, pending, emitted, fileLines,
                         osWatch, notif, passes, lineReads, log, ext>>
  /\ UNCHANGED auxVars

\* stop(): the state of the sniffer after stop() on a running sniffer.
StopCoreWrongNoGuard ==
  /\ running' = FALSE
  /\ pollTimer' = FALSE
  /\ emitted' = emitted \o StopFlush(pending)
  /\ pending' = <<>>
  /\ watchers' = {}

StopCore ==
  IF running
  THEN /\ running' = FALSE
       /\ pollTimer' = FALSE
       /\ emitted' = emitted \o StopFlush(pending)
       /\ pending' = <<>>
       /\ watchers' = {}
  ELSE UNCHANGED <<running, pollTimer, emitted, pending, watchers>>

\* watcher.close() for every watcher of the map: the closed watchers
\* deliver nothing more.  Scans and passes in flight are not cancelled.
Stop ==
  /\ NoMicro
  /\ StopCore
  /\ osWatch' = [f \in Files |->
                   IF f \in watchers /\ ~(f \in watchers') /\ osWatch[f] > 0
                   THEN osWatch[f] - 1 ELSE osWatch[f]]
  /\ notif' = [f \in Files |-> IF osWatch'[f] = 0 THEN 0 ELSE notif[f]]
  /\ UNCHANGED <<fileOffsets, fileLines, scans, passes, lineReads, log,
                 started, ext>>
  /\ UNCHANGED auxVars

\* One firing of the setInterval callback of start().
Tick ==
  /\ NoMicro
  /\ pollTimer
  /\ FreeScans # {}
  /\ scans' = [scans EXCEPT ![LowestOf(FreeScans)] =
                 [IdleScan EXCEPT !.pc = "glob"]]
  /\ UNCHANGED <<snifferVars, fileLines, osWatch, notif, passes, lineReads,
                 log, started, ext>>
  /\ UNCHANGED auxVars

\* expandGlob answers; the loop runs to the first await.
ScanGlob(s) ==
  /\ NoMicro
  /\ scans[s].pc = "glob"
  /\ scans' = [scans EXCEPT ![s] = ScanLoop(GlobOrder, watchers, fileOffsets)]
  /\ UNCHANGED <<snifferVars, fileLines, osWatch, notif, passes, lineReads,
                 log, started, ext>>
  /\ UNCHANGED auxVars

\* readNewLines after `await fsp.stat`: the next pc of a pass.
AfterStat(offset, size) == IF size <= offset THEN "return" ELSE "read"

ScanStat(s) ==
  /\ NoMicro
  /\ scans[s].pc = "stat"
  /\ LET size == Len(fileLines[scans[s].file])
     IN scans' = [scans EXCEPT ![s] =
          IF AfterStat(scans[s].offset, size) = "read"
          THEN [scans[s] EXCEPT !.pc = "read", !.size = size]
          ELSE [scans[s] EXCEPT !.pc = "watch", !.offset = 0]]
  /\ UNCHANGED <<snifferVars, fileLines, osWatch, notif, passes, lineReads,
                 log, started, ext>>
  /\ UNCHANGED auxVars

\* The offset a finished pass stores: the size stat gave.
StoredOffset(f, size) == size

ReadEffectsWrongNewestFirst(f, offset, size) ==
  LET n     == Len(fileLines[f])
      lines == [i \in 1..(n - offset) |-> fileLines[f][n + 1 - i]]
      st    == IngestAll(<<pending, emitted>>, lines)
  IN /\ pending' = st[1]
     /\ emitted' = st[2]
     /\ fileOffsets' = [fileOffsets EXCEPT ![f] = StoredOffset(f, size)]
     /\ lineReads' = [lineReads EXCEPT ![f] =
          [i \in 1..n |-> IF i > offset THEN @[i] + 1 ELSE @[i]]]

\* The stream from `offset` to the end of the file: every line is parsed
\* and ingested, then 'close' stores the offset.
ReadEffects(f, offset, size) ==
  LET n     == Len(fileLines[f])
      lines == SubSeq(fileLines[f], offset + 1, n)
      st    == IngestAll(<<pending, emitted>>, lines)
  IN /\ pending' = st[1]
     /\ emitted' = st[2]
     /\ fileOffsets' = [fileOffsets EXCEPT ![f] = StoredOffset(f, size)]
     /\ lineReads' = [lineReads EXCEPT ![f] =
          [i \in 1..n |-> IF i > offset THEN @[i] + 1 ELSE @[i]]]

ScanRead(s) ==
  /\ NoMicro
  /\ scans[s].pc = "read"
  /\ ReadEffects(scans[s].file, scans[s].offset, scans[s].size)
  /\ scans' = [scans EXCEPT ![s] = [@ EXCEPT !.pc = "watch", !.offset = 0, !.size = 0]]
  /\ UNCHANGED <<running, pollTimer, watchers, fileLines, osWatch, notif,
                 passes, log, started, ext>>
  /\ UNCHANGED auxVars

\* watchFile, then the loop goes on to its next await.
ScanWatch(s) ==
  /\ scans[s].pc = "watch"
  /\ osWatch[scans[s].file] < MaxOsWatch
  /\ LET f == scans[s].file
     IN /\ osWatch' = [osWatch EXCEPT ![f] = @ + 1]
        /\ watchers' = watchers \cup {f}
        /\ scans' = [scans EXCEPT ![s] =
                       ScanLoop(scans[s].todo, watchers', fileOffsets)]
  /\ UNCHANGED <<running, pollTimer, fileOffsets, pending, emitted,
                 fileLines, notif, passes, lineReads, log, started, ext>>
  /\ UNCHANGED auxVars

\* The callback of fs.watch: a read pass of its own.
WatchCallback(f) ==
  /\ NoMicro
  /\ notif[f] > 0
  /\ FreePasses # {}
  /\ notif' = [notif EXCEPT ![f] = @ - 1]
  /\ passes' = [passes EXCEPT ![LowestOf(FreePasses)] =
                  [pc |-> "stat", file |-> f, offset |-> fileOffsets[f],
                   size |-> 0]]
  /\ UNCHANGED <<snifferVars, fileLines, osWatch, scans, lineReads, log,
                 started, ext>>
  /\ UNCHANGED auxVars

PassStat(p) ==
  /\ NoMicro
  /\ passes[p].pc = "stat"
  /\ LET size == Len(fileLines[passes[p].file])
     IN passes' = [passes EXCEPT ![p] =
          IF AfterStat(passes[p].offset, size) = "read"
          THEN [passes[p] EXCEPT !.pc = "read", !.size = size]
          ELSE IdlePass]
  /\ UNCHANGED <<snifferVars, fileLines, osWatch, notif, scans, lineReads,
                 log, started, ext>>
  /\ UNCHANGED auxVars

PassRead(p) ==
  /\ NoMicro
  /\ passes[p].pc = "read"
  /\ ReadEffects(passes[p].file, passes[p].offset, passes[p].size)
  /\ passes' = [passes EXCEPT ![p] = IdlePass]
  /\ UNCHANGED <<running, pollTimer, watchers, fileLines, osWatch, notif,
                 scans, log, started, ext>>
  /\ UNCHANGED auxVars

\* Another process appends one line; every open watcher is notified.
AppendLine(f, rec) ==
  /\ TotalLines(Files) < MaxAppends
  /\ fileLines' = [fileLines EXCEPT ![f] = Append(@, rec)]
  /\ lineReads' = [lineReads EXCEPT ![f] = Append(@, 0)]
  /\ notif' = [notif EXCEPT ![f] = Min(@ + osWatch[f], MaxNotif)]
  /\ UNCHANGED <<snifferVars, osWatch, scans, passes, log, started, ext>>
  /\ UNCHANGED auxVars

Next ==
  \/ Start
  \/ Stop
  \/ Tick
  \/ \E s \in ScanIds : ScanGlob(s)
  \/ \E s \in ScanIds : ScanStat(s)
  \/ \E s \in ScanIds : ScanRead(s)
  \/ \E s \in ScanIds : ScanWatch(s)
  \/ \E f \in Files : WatchCallback(f)
  \/ \E p \in PassIds : PassStat(p)
  \/ \E p \in PassIds : PassRead(p)
  \/ \E f \in Files, rec \in FileFrames : AppendLine(f, rec)

Spec == Init /\ [][Next]_vars

\* The scheduling of the process: a queued callback, an answered stat, a
\* stream that can be read and an active interval timer all get their turn.
\* Nothing obliges another process to append, or the user to start or stop.
FairSpec ==
  /\ Spec
  /\ WF_vars(Tick)
  /\ \A s \in ScanIds :
       /\ WF_vars(ScanGlob(s))
       /\ WF_vars(ScanStat(s))
       /\ WF_vars(ScanRead(s))
       /\ WF_vars(ScanWatch(s))
  /\ \A f \in Files : WF_vars(WatchCallback(f))
  /\ \A p \in PassIds : WF_vars(PassStat(p)) /\ WF_vars(PassRead(p))

(***************************************************************************)
(* Claims about the sniffer with its files.                                *)
(***************************************************************************)

\* C7: stop() on a running sniffer emits every buffered partial exactly
\* once, in buffer order, and empties the buffer; stop() on a sniffer that
\* is not running emits nothing and changes neither the pending buffer, the
\* offsets, the watchers, the timer nor the running flag.
C7_StopFlushesOnceAndIsIdempotent ==
  [][Stop =>
       IF running
       THEN /\ ~running'
            /\ ~pollTimer'
            /\ pending' = <<>>
            /\ Len(emitted') = Len(emitted) + Len(pending)
            /\ \A i \in 1..Len(emitted) : emitted'[i] = emitted[i]
            /\ \A i \in 1..Len(pending) :
                 emitted'[Len(emitted) + i] = pending[i].usage
       ELSE UNCHANGED <<running, pollTimer, fileOffsets, watchers, pending,
                        emitted, osWatch>>]_vars

\* C7 witness: a stopped sniffer whose stop() flushed a buffered partial,
\* with a frame buffered again afterwards (so a further stop() has
\* something it must not flush).
C7_Witness ==
  /\ ~running
  /\ \E i \in 1..Len(emitted) : emitted[i].tok = PartialTok
  /\ pending # <<>>

\* C8: between a stop() and the next start() no watcher is attached, no
\* read pass starts, no 'usage' event is emitted and no frame is added to
\* the pending buffer.
C8_StopHaltsEverything ==
  [][(~running /\ ~running') =>
       /\ watchers' \subseteq watchers
       /\ \A f \in Files : osWatch'[f] <= osWatch[f]
       /\ emitted' = emitted
       /\ pending' = pending
       /\ \A s \in ScanIds : scans'[s].pc = "stat" => scans[s].pc = "stat"
       /\ \A p \in PassIds : passes'[p].pc = "stat" => passes[p].pc = "stat"]_vars

\* C9: no line is processed by more than one read pass, and a pass that
\* stores an offset stores the end of the lines it consumed.
C9_OnlyNewBytes ==
  [][/\ \A f \in Files : \A i \in 1..Len(lineReads'[f]) : lineReads'[f][i] <= 1
     /\ \A f \in Files :
          lineReads'[f] # lineReads[f] /\ Len(lineReads'[f]) = Len(lineReads[f])
            => fileOffsets'[f] = Len(fileLines[f])]_vars

\* C10: while the sniffer runs, every appended line is eventually
\* processed by a read pass.
C10_EveryLineEventuallyRead ==
  \A f \in Files : \A i \in 1..MaxAppends :
    [] ((running /\ Len(fileLines[f]) >= i)
          => <> (~running \/ (Len(lineReads[f]) >= i /\ lineReads[f][i] > 0)))

\* The read passes in progress over f: those of scans and of watch
\* callbacks that are between their call and their 'close'.
ScansReading(f) ==
  {s \in ScanIds : scans[s].pc \in {"stat", "read"} /\ scans[s].file = f}
PassesReading(f) ==
  {p \in PassIds : passes[p].pc \in {"stat", "read"} /\ passes[p].file = f}

\* C24: at no time are two read passes over the same file in progress.
C24_PassesSerializedPerFile ==
  \A f \in Files :
    Cardinality(ScansReading(f)) + Cardinality(PassesReading(f)) <= 1

\* C25: within one file, frames are ingested in on-disk order across all
\* read passes: a step that ingests lines of a file ingests, in file order,
\* all its lines after some line k, and every line up to k was ingested
\* before; so no line is ingested before a line that precedes it.
C25_FileOrderKept ==
  [][\A f \in Files :
       (lineReads'[f] # lineReads[f] /\ Len(lineReads'[f]) = Len(lineReads[f]))
         => \E k \in 0..Len(fileLines[f]) :
              /\ \A i \in 1..k :
                   lineReads[f][i] > 0 /\ lineReads'[f][i] = lineReads[f][i]
              /\ \A i \in (k + 1)..Len(fileLines[f]) :
                   lineReads'[f][i] = lineReads[f][i] + 1
              /\ <<pending', emitted'>>
                   = IngestAll(<<pending, emitted>>,
                               SubSeq(fileLines[f], k + 1, Len(fileLines[f])))]_vars

\* C25 witness: a file holds a partial and then the final of a messageId,
\* the partial was read by two passes and the final by one.
C25_Witness ==
  \E f \in Files :
    /\ Len(fileLines[f]) = 2
    /\ fileLines[f][1].stopReason = NULL
    /\ fileLines[f][2].stopReason # NULL
    /\ lineReads[f] = <<2, 1>>

(***************************************************************************)
(* The sniffer at the level of its 'line' handler (SpecDedup).             *)
(*                                                                         *)
(* The files, scans and passes are left out: once start() has been called  *)
(* a read pass may deliver any frame to the 'line' handler at any time     *)
(* (Spec shows passes outliving stop()).  log records what was ingested    *)
(* and what each stop() flushed.                                           *)
(***************************************************************************)
NoRecord == ParsedRecord(NULL, NULL, TokenUsage(NoUuid, NULL, <<0, 0, 0, 0>>, ""))

LineEntry(rec) == [op |-> "line", rec |-> rec, flushed |-> {}]
StopEntry(map) ==
  [op |-> "stop", rec |-> NoRecord,
   flushed |-> {map[i].messageId : i \in 1..Len(map)}]

CountOp(op) == Len(SelectSeq(log, LAMBDA e : e.op = op))

DStart ==
  /\ IF running
     THEN UNCHANGED <<running, pollTimer, started>>
     ELSE StartCore
  /\ UNCHANGED <<fileOffsets, watchers, pending, emitted, ioVars, log, ext>>
  /\ UNCHANGED auxVars

DStop ==
  /\ running => CountOp("stop") < MaxStops
  /\ StopCore
  /\ log' = IF running THEN Append(log, StopEntry(pending)) ELSE log
  /\ UNCHANGED <<fileOffsets, ioVars, started, ext>>
  /\ UNCHANGED auxVars

\* rl.on('line'): the parsed record of one line goes to ingestParsed.
DLine(rec) ==
  /\ started
  /\ CountOp("line") < MaxFrames
  /\ LET st == IngestParsed(<<pending, emitted>>, rec)
     IN /\ pending' = st[1]
        /\ emitted' = st[2]
  /\ log' = Append(log, LineEntry(rec))
  /\ UNCHANGED <<running, pollTimer, fileOffsets, watchers, ioVars, started,
                 ext>>
  /\ UNCHANGED auxVars

DNext ==
  \/ DStart
  \/ DStop
  \/ \E rec \in Frames : DLine(rec)

SpecDedup == Init /\ [][DNext]_vars

(***************************************************************************)
(* Claims about the streaming dedup.                                       *)
(***************************************************************************)
EmittedFor(m) == SelectSeq(emitted, LAMBDA u : u.messageId = m)

\* What happened to messageId m: its frames, and the stops that flushed it.
HistoryOf(m) ==
  SelectSeq(log, LAMBDA e :
    \/ e.op = "line" /\ e.rec.messageId = m
    \/ e.op = "stop" /\ m \in e.flushed)

IsPartial(e) == e.op = "line" /\ e.rec.stopReason = NULL
IsFinal(e)   == e.op = "line" /\ e.rec.stopReason # NULL

\* One or more partials, then one final, and nothing else.
PartialsThenFinal(h) ==
  /\ Len(h) >= 2
  /\ \A i \in 1..(Len(h) - 1) : IsPartial(h[i])
  /\ IsFinal(h[Len(h)])

\* C1: when the frames of a messageId are one or more partials followed
\* by one final, exactly one 'usage' event has been emitted for it and it
\* carries the token counts of the final frame.
C1_PartialsThenFinalEmitOnce ==
  \A m \in MIds :
    PartialsThenFinal(HistoryOf(m)) =>
      EmittedFor(m) = <<HistoryOf(m)[Len(HistoryOf(m))].rec.usage>>

\* C1 witness: two partials and a final with its own token counts.
C1_Witness ==
  \E m \in MIds :
    /\ PartialsThenFinal(HistoryOf(m))
    /\ Len(HistoryOf(m)) = 3
    /\ HistoryOf(m)[2].rec.usage.tok # HistoryOf(m)[3].rec.usage.tok

\* The frames ingested since the last stop() of a running sniffer.
RECURSIVE SinceLastStop(_)
SinceLastStop(l) ==
  IF l = <<>> \/ l[Len(l)].op = "stop" THEN <<>>
  ELSE Append(SinceLastStop(SubSeq(l, 1, Len(l) - 1)), l[Len(l)])

LinesOf(l, m) == SelectSeq(l, LAMBDA e : e.op = "line" /\ e.rec.messageId = m)

\* C2: stop() on a running sniffer, for every messageId of which no final
\* frame was ever ingested and a partial was ingested since the stop()
\* before: the events stop() emits hold exactly one for that messageId, it
\* is the most recently ingested partial, and the buffer is left empty.
C2_StopFlushesLastPartial ==
  [][(DStop /\ running) =>
       /\ pending' = <<>>
       /\ \A m \in MIds :
            LET all == LinesOf(log, m)
                new == LinesOf(SinceLastStop(log), m)
                out == SelectSeq(SubSeq(emitted', Len(emitted) + 1, Len(emitted')),
                                 LAMBDA u : u.messageId = m)
            IN (new # <<>> /\ \A i \in 1..Len(all) : IsPartial(all[i]))
                 => out = <<new[Len(new)].rec.usage>>]_vars

\* C2 witness: stop() has flushed a messageId whose later partial had the
\* smaller output token count.
C2_Witness ==
  /\ ~running
  /\ log # <<>>
  /\ log[Len(log)].op = "stop"
  /\ \E m \in log[Len(log)].flushed :
       LET all == LinesOf(log, m)
       IN /\ Len(all) = 2
          /\ IsPartial(all[1]) /\ IsPartial(all[2])
          /\ all[1].rec.usage.tok[2] > all[2].rec.usage.tok[2]
          /\ EmittedFor(m) = <<all[2].rec.usage>>

\* C3: never more than one 'usage' event per messageId, and once stop()
\* has run exactly one for every messageId a frame was ingested for.
C3_ExactlyOneEventPerMessageId ==
  \A m \in MIds :
    /\ Len(EmittedFor(m)) <= 1
    /\ (log # <<>> /\ log[Len(log)].op = "stop" /\ LinesOf(log, m) # <<>>)
         => Len(EmittedFor(m)) = 1

\* C6: the pending buffer holds at most one entry per messageId, and holds
\* one exactly when, since the last stop(), a partial and no final frame
\* was ingested for that messageId.
C6_PendingIffPartialAndNoFinal ==
  \A m \in MIds :
    LET new == LinesOf(SinceLastStop(log), m)
    IN /\ Cardinality({i \in 1..Len(pending) : pending[i].messageId = m}) <= 1
       /\ MapHas(pending, m) <=>
            /\ \E i \in 1..Len(new) : IsPartial(new[i])
            /\ \A i \in 1..Len(new) : ~IsFinal(new[i])

(***************************************************************************)
(* activate(): the extension (SpecExt).                                    *)
(*                                                                         *)
(* ext holds the closure state of activate(): the branch sessions (branch  *)
(* -> its tokenUsage list), the two dedup sets, currentBranch, and the     *)
(* running flag and pending buffer of the sniffer behind each              *)
(* FileWatcherAdapter.  A 'usage' event reaches onUsage inside emit(), so  *)
(* it is part of the step that emits it.  pc is "migrate" until the        *)
(* HEAD-session migration has run and the sniffers have been started.      *)
(* heard, accepted and old are history: which sniffer has delivered an     *)
(* event for which messageId, how many usages onUsage pushed per           *)
(* messageId, and the messageIds of the sessions loaded from storage.      *)
(***************************************************************************)
Sniffers == <<"main", "sub">>
Branches == {"HEAD", "main"}

\* The lines of the log files of sniffer s: every line has its own uuid.
XFrames(s) ==
  { ParsedRecord(m, stop,
      TokenUsage(<<s, m, stop>>, m, IF stop = NULL THEN PartialTok ELSE FinalTok, b))
      : m \in MIds, stop \in {NULL, "end_turn"}, b \in Branches }

getOrCreate(sessions, branch) ==
  IF branch \in DOMAIN sessions THEN sessions ELSE sessions @@ (branch :> <<>>)

SessionsDelete(sessions, branch) ==
  [b \in (DOMAIN sessions) \ {branch} |-> sessions[b]]

Push(x, usage) ==
  LET branch == IF usage.branchName # "" /\ usage.branchName # "HEAD"
                THEN usage.branchName ELSE x.currentBranch
      ss     == getOrCreate(x.sessions, branch)
  IN [x EXCEPT !.sessions = [ss EXCEPT ![branch] = Append(@, usage)],
               !.accepted = [@ EXCEPT ![usage.messageId] = @ + 1]]

onUsageWrongNoMessageIdDedup(x, usage) ==
  IF usage.uuid # NoUuid /\ usage.uuid \in x.seenUuids
  THEN x
  ELSE Push([x EXCEPT !.seenUuids =
                        IF usage.uuid # NoUuid THEN @ \cup {usage.uuid} ELSE @,
                      !.seenMessageIds = @ \cup {usage.messageId}], usage)

onUsage(x, usage) ==
  IF usage.uuid # NoUuid /\ usage.uuid \in x.seenUuids
  THEN x
  ELSE LET y == [x EXCEPT !.seenUuids =
                    IF usage.uuid # NoUuid THEN @ \cup {usage.uuid} ELSE @]
       IN IF usage.messageId \in y.seenMessageIds
          THEN y
          ELSE Push([y EXCEPT !.seenMessageIds = @ \cup {usage.messageId}],
                    usage)

\* The 'usage' events `out` of sniffer s, delivered in order.
RECURSIVE Deliver(_, _, _)
Deliver(x, s, out) ==
  IF out = <<>> THEN x
  ELSE Deliver(
         [onUsage(x, Head(out)) EXCEPT !.heard = @ \cup {<<s, Head(out).messageId>>}],
         s, Tail(out))

\* sniffer.stop() of the sniffer s.
XStopOne(x, s) ==
  IF x.sn[s].running
  THEN Deliver([x EXCEPT !.sn[s] = [running |-> FALSE, pending |-> <<>>]],
               s, StopFlush(x.sn[s].pending))
  ELSE x

MessageIdsOf(sessions) ==
  {sessions[b][i].messageId : <<b, i>> \in
     {<<b, i>> \in (DOMAIN sessions) \X (1..MaxXLines + Cardinality(MIds)) :
        i <= Len(sessions[b])}}

\* The sessions storage can hold: each messageId stored at most once.
StoredUsage(m, b) == TokenUsage(<<"stored", m>>, m, FinalTok, b)

StoredSessions ==
  { [b \in {loc[m] : m \in {m \in MIds : loc[m] # "none"}} |->
       IF b = "HEAD" /\ loc["m1"] = "HEAD" /\ loc["m2"] = "HEAD"
       THEN <<StoredUsage("m1", b), StoredUsage("m2", b)>>
       ELSE IF b = "main" /\ loc["m1"] = "main" /\ loc["m2"] = "main"
       THEN <<StoredUsage("m1", b), StoredUsage("m2", b)>>
       ELSE <<StoredUsage(CHOOSE m \in MIds : loc[m] = b, b)>>]
      : loc \in [MIds -> Branches \cup {"none"}] }

InitExt ==
  /\ SnifferInit
  /\ AuxInit
  /\ \E ss \in StoredSessions, cur \in Branches :
       ext = [pc |-> "migrate",
              sessions |-> ss,
              seenUuids |-> {ss[b][i].uuid : <<b, i>> \in
                 {<<b, i>> \in (DOMAIN ss) \X (1..Cardinality(MIds)) : i <= Len(ss[b])}},
              seenMessageIds |-> MessageIdsOf(ss),
              currentBranch |-> cur,
              sn |-> [s \in {"main", "sub"} |-> [running |-> FALSE, pending |-> <<>>]],
              lines |-> 0,
              heard |-> {},
              accepted |-> [m \in MIds |-> 0],
              old |-> MessageIdsOf(ss)]

\* The usages of the HEAD session the target does not hold yet, appended.
RECURSIVE MergeInto(_, _)
MergeInto(target, usages) ==
  IF usages = <<>> THEN target
  ELSE MergeInto(
         IF \E i \in 1..Len(target) : target[i].messageId = Head(usages).messageId
         THEN target ELSE Append(target, Head(usages)),
         Tail(usages))

\* The migration of the persisted HEAD session, then both sniffers start.
XMigrate(resolvedBranch) ==
  /\ ext.pc = "migrate"
  /\ LET ss == ext.sessions
         migrated ==
           IF "HEAD" \in DOMAIN ss /\ Len(ss["HEAD"]) > 0 /\ resolvedBranch # "HEAD"
           THEN LET tt == getOrCreate(ss, resolvedBranch)
                IN SessionsDelete(
                     [tt EXCEPT ![resolvedBranch] = MergeInto(@, ss["HEAD"])],
                     "HEAD")
           ELSE ss
     IN ext' = [ext EXCEPT
                  !.pc = "run",
                  !.sessions = getOrCreate(migrated, ext.currentBranch),
                  !.sn = [s \in {"main", "sub"} |->
                            [running |-> TRUE, pending |-> <<>>]]]
  /\ UNCHANGED <<snifferVars, ioVars, log, started>>
  /\ UNCHANGED auxVars

\* rl.on('line') of sniffer s.
XLine(s, rec) ==
  /\ ext.pc = "run"
  /\ ext.lines < MaxXLines
  /\ LET st == IngestParsed(<<ext.sn[s].pending, <<>> >>, rec)
     IN ext' = Deliver([ext EXCEPT !.sn[s].pending = st[1], !.lines = @ + 1],
                       s, st[2])
  /\ UNCHANGED <<snifferVars, ioVars, log, started>>
  /\ UNCHANGED auxVars

\* devvalue.stopTracking: both adapters are disposed.
XCmdStop ==
  /\ ext.pc = "run"
  /\ ext' = XStopOne(XStopOne(ext, "main"), "sub")
  /\ UNCHANGED <<snifferVars, ioVars, log, started>>
  /\ UNCHANGED auxVars

\* devvalue.startTracking.
XCmdStart ==
  /\ ext.pc = "run"
  /\ ext' = [ext EXCEPT !.sn = [s \in {"main", "sub"} |->
                                  [@[s] EXCEPT !.running = TRUE]]]
  /\ UNCHANGED <<snifferVars, ioVars, log, started>>
  /\ UNCHANGED auxVars

\* devvalue.resetBranch, and the reset of a branch from the dashboard.
XReset(branch) ==
  /\ ext.pc = "run"
  /\ ext' = [ext EXCEPT !.sessions = SessionsDelete(@, branch)]
  /\ UNCHANGED <<snifferVars, ioVars, log, started>>
  /\ UNCHANGED auxVars

\* tick(): the branch git reports becomes the current branch.
XTick(newBranch) ==
  /\ ext.pc = "run"
  /\ ext' = [ext EXCEPT
               !.currentBranch = newBranch,
               !.sessions = getOrCreate(getOrCreate(@, ext.currentBranch), newBranch)]
  /\ UNCHANGED <<snifferVars, ioVars, log, started>>
  /\ UNCHANGED auxVars

XNext ==
  \/ \E b \in Branches : XMigrate(b)
  \/ \E s \in {"main", "sub"} : \E rec \in XFrames(s) : XLine(s, rec)
  \/ XCmdStop
  \/ XCmdStart
  \/ \E b \in Branches : XReset(b)
  \/ \E b \in Branches : XTick(b)

SpecExt == InitExt /\ [][XNext]_vars

(***************************************************************************)
(* Claims about the extension.                                             *)
(***************************************************************************)
StoredCount(m) ==
  Cardinality({<<b, i>> \in (DOMAIN ext.sessions) \X (1..(MaxXLines + Cardinality(MIds))) :
                 i <= Len(ext.sessions[b]) /\ ext.sessions[b][i].messageId = m})

\* C4: at most one TokenUsage of a messageId is stored across all the
\* branch sessions.
C4_MessageIdStoredOnce == \A m \in MIds : StoredCount(m) <= 1

\* C4 witness: a second event of a stored messageId has been delivered.
C4_Witness ==
  \E m \in MIds :
    /\ StoredCount(m) = 1
    /\ ext.accepted[m] = 1
    /\ <<"main", m>> \in ext.heard
    /\ <<"sub", m>> \in ext.heard

\* C5: when the main-log sniffer and the subagent-log sniffer have both
\* delivered an event of a messageId that storage did not hold, onUsage
\* has accepted exactly one TokenUsage of it; it never accepts two.
C5_MirrorAndDirectAcceptedOnce ==
  \A m \in MIds \ ext.old :
    /\ ext.accepted[m] <= 1
    /\ (<<"main", m>> \in ext.heard /\ <<"sub", m>> \in ext.heard)
         => ext.accepted[m] = 1

\* C5 witness: the direct record came as a flushed partial, the mirror as
\* a final frame, and one of them is stored.
C5_Witness ==
  \E m \in MIds \ ext.old :
    /\ <<"main", m>> \in ext.heard
    /\ <<"sub", m>> \in ext.heard
    /\ ext.accepted[m] = 1
    /\ \E b \in DOMAIN ext.sessions : \E i \in 1..Len(ext.sessions[b]) :
         /\ ext.sessions[b][i].messageId = m
         /\ ext.sessions[b][i].tok = PartialTok
         /\ ext.sessions[b][i].uuid = <<"sub", m, NULL>>

\* C29: when a sniffer reads the final frame of a messageId, every record
\* of that messageId stored in the branch sessions after the step carries
\* the token counts of the final frame, whatever was delivered before.
C29_FinalFrameWins ==
  [][ \A s \in {"main", "sub"} : \A rec \in XFrames(s) :
        (rec.stopReason # NULL /\ XLine(s, rec)) =>
          \A b \in DOMAIN ext'.sessions : \A i \in 1..Len(ext'.sessions[b]) :
            ext'.sessions[b][i].messageId = rec.messageId
              => ext'.sessions[b][i].tok = rec.usage.tok ]_vars

(***************************************************************************)
(* The sniffer with I/O faults (SpecFault).                                *)
(*                                                                         *)
(* Every step of Spec, and the same I/O calls failing.  faults counts the  *)
(* faults met (io), the 'error' events emitted to the listener (errors)    *)
(* and the promises rejected with no handler (rejections): scanAndWatch    *)
(* and the readNewLines of a watcher callback are started with `void`.     *)
(***************************************************************************)
Fault(errs, rejs) ==
  /\ faults.io < MaxFaults
  /\ faults' = [io |-> faults.io + 1, errors |-> faults.errors + errs,
                rejections |-> faults.rejections + rejs]
  /\ UNCHANGED <<eng, calc>>

\* The glob root is missing or unreadable: readdir throws inside
\* expandSegments, which answers []; the loop has no file to visit.
ScanGlobFault(s) ==
  /\ NoMicro
  /\ scans[s].pc = "glob"
  /\ scans' = [scans EXCEPT ![s] = ScanLoop(<<>>, watchers, fileOffsets)]
  /\ Fault(0, 0)
  /\ UNCHANGED <<snifferVars, fileLines, osWatch, notif, passes, lineReads,
                 log, started, ext>>

\* fsp.stat throws (the file has vanished): readNewLines returns, and the
\* scan goes on to watchFile.
ScanStatFault(s) ==
  /\ NoMicro
  /\ scans[s].pc = "stat"
  /\ scans' = [scans EXCEPT ![s] = [@ EXCEPT !.pc = "watch", !.offset = 0]]
  /\ Fault(0, 0)
  /\ UNCHANGED <<snifferVars, fileLines, osWatch, notif, passes, lineReads,
                 log, started, ext>>

\* The stream fails (permission denied, read error): the promise of
\* readNewLines rejects, `await` throws in scanAndWatch, which has no
\* try around its loop: the scan ends there, its promise rejected.
ScanReadFault(s) ==
  /\ NoMicro
  /\ scans[s].pc = "read"
  /\ scans' = [scans EXCEPT ![s] = IdleScan]
  /\ Fault(0, 1)
  /\ UNCHANGED <<snifferVars, fileLines, osWatch, notif, passes, lineReads,
                 log, started, ext>>

\* fs.watch throws: watchFile emits 'error' and the loop goes on.
ScanWatchFault(s) ==
  /\ scans[s].pc = "watch"
  /\ scans' = [scans EXCEPT ![s] =
                 ScanLoop(scans[s].todo, watchers, fileOffsets)]
  /\ Fault(1, 0)
  /\ UNCHANGED <<snifferVars, fileLines, osWatch, notif, passes, lineReads,
                 log, started, ext>>

\* The same faults in a read pass started by a watcher callback.
PassStatFault(p) ==
  /\ NoMicro
  /\ passes[p].pc = "stat"
  /\ passes' = [passes EXCEPT ![p] = IdlePass]
  /\ Fault(0, 0)
  /\ UNCHANGED <<snifferVars, fileLines, osWatch, notif, scans, lineReads,
                 log, started, ext>>

PassReadFaultWrongStoresOffset(p) ==
  /\ NoMicro
  /\ passes[p].pc = "read"
  /\ passes' = [passes EXCEPT ![p] = IdlePass]
  /\ fileOffsets' = [fileOffsets EXCEPT ![passes[p].file] = passes[p].size]
  /\ Fault(0, 1)
  /\ UNCHANGED <<running, pollTimer, watchers, pending, emitted, fileLines,
                 osWatch, notif, scans, lineReads, log, started, ext>>

PassReadFault(p) ==
  /\ NoMicro
  /\ passes[p].pc = "read"
  /\ passes' = [passes EXCEPT ![p] = IdlePass]
  /\ Fault(0, 1)
  /\ UNCHANGED <<snifferVars, fileLines, osWatch, notif, scans, lineReads,
                 log, started, ext>>

\* An open watcher of the map reports an error: it is re-emitted.
WatcherError(f) ==
  /\ f \in watchers
  /\ osWatch[f] > 0
  /\ Fault(1, 0)
  /\ UNCHANGED <<snifferVars, ioVars, log, started, ext>>

FaultNext ==
  \/ Next
  \/ \E s \in ScanIds : ScanGlobFault(s)
  \/ \E s \in ScanIds : ScanStatFault(s)
  \/ \E s \in ScanIds : ScanReadFault(s)
  \/ \E s \in ScanIds : ScanWatchFault(s)
  \/ \E p \in PassIds : PassStatFault(p)
  \/ \E p \in PassIds : PassReadFault(p)
  \/ \E f \in Files : WatcherError(f)

SpecFault == Init /\ [][FaultNext]_vars

(***************************************************************************)
(* Claims about I/O faults.                                                *)
(***************************************************************************)
\* C11: a fault in the read pass of a scan does not end the scan while a
\* file it has still to visit is unwatched: the other files of the scan
\* are still caught up and watched.
C11_FaultDoesNotInterruptScan ==
  [][\A s \in ScanIds :
       (/\ scans[s].pc \in {"stat", "read"}
        /\ faults'.io = faults.io + 1
        /\ scans'[s].pc = "idle")
         => \A i \in 1..Len(scans[s].todo) : scans[s].todo[i] \in watchers]_vars

\* C12: every I/O fault causes one 'error' event.
C12_EveryFaultEmitsError ==
  [][faults'.io = faults.io + 1 => faults'.errors = faults.errors + 1]_vars

\* C26: the stored offset of a file changes only in the step that
\* completes a read pass over that file without a fault; a pass that
\* returns early or fails leaves every offset as it was.
C26_OffsetChangesOnlyOnSuccess ==
  [][\A f \in Files :
       fileOffsets'[f] # fileOffsets[f] =>
         /\ faults' = faults
         /\ \/ \E s \in ScanIds :
                 /\ scans[s].pc = "read" /\ scans[s].file = f
                 /\ scans'[s].pc = "watch"
                 /\ fileOffsets'[f] = scans[s].size
            \/ \E p \in PassIds :
                 /\ passes[p].pc = "read" /\ passes[p].file = f
                 /\ passes'[p] = IdlePass
                 /\ fileOffsets'[f] = passes[p].size]_vars

\* C26 witness: a read pass over f1, the only file with lines, has failed
\* on its stream, and a pass has read f1 to its end and stored the offset.
C26_Witness ==
  /\ faults.rejections > 0
  /\ fileLines["f2"] = <<>>
  /\ Len(fileLines["f1"]) = 2
  /\ fileOffsets["f1"] = 2
  /\ lineReads["f1"] = <<1, 1>>

(***************************************************************************)
(* The sniffer over raw lines (SpecParse).                                 *)
(*                                                                         *)
(* A raw line is what JSON.parse and the field tests of parseLine can tell *)
(* apart: json is "bad" (JSON.parse throws), "array" (a JSON value that is *)
(* not an object) or "object"; type is record.type; message and usage say  *)
(* whether the message chain and the usage field are objects; id is the    *)
(* message id, NULL when it is not a string; stop is stop_reason;          *)
(* isSidechain is the record's own isSidechain field, "absent", "false" or *)
(* "true".                                                                 *)
(***************************************************************************)
RawLine(json, type, message, usage, id, stop, isSidechain) ==
  [json |-> json, type |-> type, message |-> message, usage |-> usage,
   id |-> id, stop |-> stop, isSidechain |-> isSidechain]

GoodRawLines ==
  { RawLine("object", "assistant", TRUE, TRUE, "m1", NULL, "absent"),
    RawLine("object", "assistant", TRUE, TRUE, "m1", "end_turn", "absent"),
    RawLine("object", "assistant", TRUE, TRUE, "m2", "end_turn", "absent"),
    RawLine("object", "progress", TRUE, TRUE, "m2", NULL, "absent") }

BadRawLines ==
  { RawLine("bad", "assistant", TRUE, TRUE, "m1", "end_turn", "absent"),
    RawLine("array", "assistant", TRUE, TRUE, "m1", "end_turn", "absent"),
    RawLine("object", "user", TRUE, TRUE, "m1", "end_turn", "absent"),
    RawLine("object", "progress", FALSE, TRUE, "m1", NULL, "absent"),
    RawLine("object", "assistant", TRUE, FALSE, "m1", "end_turn", "absent"),
    RawLine("object", "assistant", TRUE, TRUE, NULL, "end_turn", "absent"),
    RawLine("object", "progress", TRUE, TRUE, "", NULL, "absent") }

RawLines == GoodRawLines \cup BadRawLines

\* buildRecord: the record of a line that passed every test.
buildRecord(raw) ==
  ParsedRecord(raw.id, raw.stop,
    TokenUsage(NoUuid, raw.id,
               IF raw.stop = NULL THEN PartialTok ELSE FinalTok, "")
      @@ [isBackground |-> raw.isSidechain = "true"])

\* parseAssistantRecord and parseProgressRecord make the same tests, on
\* record.message and on record.data.message.message.
parseRecord(raw) ==
  IF ~raw.message THEN NoRecord
  ELSE IF ~raw.usage THEN NoRecord
  ELSE IF raw.id = NULL \/ raw.id = "" THEN NoRecord
  ELSE buildRecord(raw)

parseLineWrongNoUsageTest(raw) ==
  IF raw.json = "bad" THEN NoRecord
  ELSE IF raw.json # "object" THEN NoRecord
  ELSE IF raw.type \in {"assistant", "progress"}
       THEN IF ~raw.message \/ raw.id = NULL \/ raw.id = ""
            THEN NoRecord ELSE buildRecord(raw)
       ELSE NoRecord

\* parseLine: NoRecord stands for null.
parseLine(raw) ==
  IF raw.json = "bad" THEN NoRecord
  ELSE IF raw.json # "object" THEN NoRecord
  ELSE IF raw.type = "assistant" THEN parseRecord(raw)
  ELSE IF raw.type = "progress" THEN parseRecord(raw)
  ELSE NoRecord

\* rl.on('line') over the lines of one pass, in order.
RECURSIVE ReadLines(_, _)
ReadLines(st, lines) ==
  IF lines = <<>> THEN st
  ELSE LET parsed == parseLine(Head(lines))
       IN ReadLines(IF parsed = NoRecord THEN st ELSE IngestParsed(st, parsed),
                    Tail(lines))

PassEntry(lines) == [op |-> "pass", lines |-> lines]

\* One read pass: its lines go through the 'line' handler, then 'close'.
PPass(lines) ==
  /\ started
  /\ CountOp("pass") < MaxRawPasses
  /\ LET st == ReadLines(<<pending, emitted>>, lines)
     IN /\ pending' = st[1]
        /\ emitted' = st[2]
  /\ log' = Append(log, PassEntry(lines))
  /\ UNCHANGED <<running, pollTimer, fileOffsets, watchers, ioVars, started,
                 ext, auxVars>>

PNext ==
  \/ DStart
  \/ DStop
  \/ \E n \in 1..MaxPassLines : \E lines \in [1..n -> RawLines] : PPass(lines)

SpecParse == Init /\ [][PNext]_vars

(***************************************************************************)
(* Claims about parse faults.                                              *)
(***************************************************************************)
\* The faults the claim lists, read off the line itself.
IsParseFault(raw) ==
  \/ raw.json # "object"
  \/ ~(raw.type \in {"assistant", "progress"})
  \/ ~raw.message
  \/ raw.id = NULL \/ raw.id = ""
  \/ ~raw.usage

RECURSIVE RecordsOf(_)
RecordsOf(lines) ==
  IF lines = <<>> THEN <<>>
  ELSE IF IsParseFault(Head(lines)) THEN RecordsOf(Tail(lines))
  ELSE <<buildRecord(Head(lines))>> \o RecordsOf(Tail(lines))

\* C13: a read pass gives the 'usage' events and the pending buffer that
\* the same pass without its faulty lines gives (a faulty line changes
\* neither, and the lines after it are processed), and it emits no 'error'
\* event and rejects no promise.
C13_ParseFaultSkippedSilently ==
  [][(log' # log /\ log'[Len(log')].op = "pass") =>
       /\ <<pending', emitted'>> =
            IngestAll(<<pending, emitted>>, RecordsOf(log'[Len(log')].lines))
       /\ faults' = faults]_vars

\* C13 witness: a pass has met a faulty line and then a final frame, whose
\* event is the last one emitted.
C13_Witness ==
  /\ log # <<>>
  /\ LET e == log[Len(log)]
     IN /\ e.op = "pass"
        /\ Len(e.lines) = 2
        /\ IsParseFault(e.lines[1])
        /\ ~IsParseFault(e.lines[2])
        /\ e.lines[2].stop # NULL
        /\ emitted # <<>>
        /\ emitted[Len(emitted)].messageId = e.lines[2].id

(***************************************************************************)
(* Direct and progress records with their isSidechain field (SpecSide).    *)
(***************************************************************************)
SidechainLines ==
  { RawLine("object", type, TRUE, TRUE, "m1", "end_turn", side)
      : type \in {"assistant", "progress"},
        side \in {"absent", "false", "true"} }

SideNext ==
  \/ DStart
  \/ DStop
  \/ \E n \in 1..MaxPassLines : \E lines \in [1..n -> SidechainLines] :
       PPass(lines)

SpecSide == Init /\ [][SideNext]_vars

\* The step is a read pass whose lines are all final frames.
IsFinalsPass ==
  /\ log' # log
  /\ log'[Len(log')].op = "pass"
  /\ \A i \in 1..Len(log'[Len(log')].lines) :
       log'[Len(log')].lines[i].stop # NULL

\* C21: the usage record of a progress record has isBackground = true
\* whatever the record's isSidechain field is, and that of a direct
\* assistant record has isBackground = true exactly when its isSidechain
\* field is true.
C21_ProgressIsBackground ==
  [][IsFinalsPass =>
       \A i \in 1..Len(log'[Len(log')].lines) :
         LET raw == log'[Len(log')].lines[i]
             u   == emitted'[Len(emitted) + i]
         IN /\ raw.type = "progress" => u.isBackground
            /\ raw.type = "assistant" =>
                 (u.isBackground <=> raw.isSidechain = "true")]_vars

(***************************************************************************)
(* PtaFlowEngine (SpecFlow).                                               *)
(*                                                                         *)
(* eng holds the fields of one engine (maxIdleTimeoutMs, flowThreshold,    *)
(* eventWindow, lastEventTime, activeMs), the clock of its caller, the     *)
(* answer of getFlowState since the engine last changed with the `now` it  *)
(* was asked for, and as                                                   *)
(* history the timestamps recorded since construction or the last reset()  *)
(* and the numbers of events and resets.  Times are in milliseconds, as in *)
(* the code; timestamps are those of Date.now(), so they are positive.     *)
(***************************************************************************)
FLOW_MULTIPLIER == 4
WINDOW_MS == 60000

\* The DevValueConfig values tried: <<maxIdleTimeout (s), flowThreshold>>.
Configs == {<<300, 3>>}
\* The clock at construction, and the time between two events.
StartClock == 1000
Gaps == {10000, 300000, 300001, 1000000, 1200000, 1200001}
\* getFlowState is asked for lastEventTime plus one of these.
NowOffsets == {0, 59999, 60000, 1200001}

NoFlow == [isInFlow |-> FALSE, eventRate |-> -1, idleTimeout |-> -1,
           isIdle |-> FALSE]

\* new PtaFlowEngine(config)
NewEngine(cfg) ==
  [maxIdleTimeoutMs |-> cfg[1] * 1000, flowThreshold |-> cfg[2],
   eventWindow |-> <<>>, lastEventTime |-> 0, activeMs |-> 0]

Filter(window, cutoff) == SelectSeq(window, LAMBDA t : t > cutoff)

getFlowStateWrongBaseTimeout(e, now) ==
  LET recentEvents == Filter(e.eventWindow, now - WINDOW_MS)
      eventRate    == Len(recentEvents)
      isInFlow     == eventRate >= e.flowThreshold
      idleTimeout  == e.maxIdleTimeoutMs
  IN [isInFlow |-> isInFlow, eventRate |-> eventRate,
      idleTimeout |-> idleTimeout,
      isIdle |-> e.lastEventTime > 0 /\ now - e.lastEventTime > idleTimeout]

getFlowStateWrongStrictThreshold(e, now) ==
  LET recentEvents == Filter(e.eventWindow, now - WINDOW_MS)
      eventRate    == Len(recentEvents)
      isInFlow     == eventRate > e.flowThreshold
      idleTimeout  == IF isInFlow THEN e.maxIdleTimeoutMs * FLOW_MULTIPLIER
                      ELSE e.maxIdleTimeoutMs
  IN [isInFlow |-> isInFlow, eventRate |-> eventRate,
      idleTimeout |-> idleTimeout,
      isIdle |-> e.lastEventTime > 0 /\ now - e.lastEventTime > idleTimeout]

getFlowStateWrongIdleBeforeEvents(e, now) ==
  LET recentEvents == Filter(e.eventWindow, now - WINDOW_MS)
      eventRate    == Len(recentEvents)
      isInFlow     == eventRate >= e.flowThreshold
      idleTimeout  == IF isInFlow THEN e.maxIdleTimeoutMs * FLOW_MULTIPLIER
                      ELSE e.maxIdleTimeoutMs
  IN [isInFlow |-> isInFlow, eventRate |-> eventRate,
      idleTimeout |-> idleTimeout,
      isIdle |-> now - e.lastEventTime > idleTimeout]

getFlowState(e, now) ==
  LET recentEvents == Filter(e.eventWindow, now - WINDOW_MS)
      eventRate    == Len(recentEvents)
      isInFlow     == eventRate >= e.flowThreshold
      idleTimeout  == IF isInFlow THEN e.maxIdleTimeoutMs * FLOW_MULTIPLIER
                      ELSE e.maxIdleTimeoutMs
  IN [isInFlow |-> isInFlow, eventRate |-> eventRate,
      idleTimeout |-> idleTimeout,
      isIdle |-> e.lastEventTime > 0 /\ now - e.lastEventTime > idleTimeout]

recordEventWrongStrictGap(e, timestamp) ==
  LET gap      == timestamp - e.lastEventTime
      credited == IF e.lastEventTime > 0
                     /\ gap < getFlowState(e, e.lastEventTime).idleTimeout
                  THEN gap ELSE 0
  IN [e EXCEPT !.activeMs = @ + credited,
               !.eventWindow = Append(Filter(@, timestamp - WINDOW_MS), timestamp),
               !.lastEventTime = timestamp]

recordEventWrongNoPrune(e, timestamp) ==
  LET gap      == timestamp - e.lastEventTime
      credited == IF e.lastEventTime > 0
                     /\ gap <= getFlowState(e, e.lastEventTime).idleTimeout
                  THEN gap ELSE 0
  IN [e EXCEPT !.activeMs = @ + credited,
               !.eventWindow = Append(@, timestamp),
               !.lastEventTime = timestamp]

recordEvent(e, timestamp) ==
  LET gap      == timestamp - e.lastEventTime
      credited == IF e.lastEventTime > 0
                     /\ gap <= getFlowState(e, e.lastEventTime).idleTimeout
                  THEN gap ELSE 0
  IN [e EXCEPT !.activeMs = @ + credited,
               !.eventWindow = Append(Filter(@, timestamp - WINDOW_MS), timestamp),
               !.lastEventTime = timestamp]

\* getActiveSeconds: activeMs / 1000, kept as a fraction.
getActiveSeconds(e) == [num |-> e.activeMs, den |-> 1000]

resetWrongKeepsWindow(e) == [e EXCEPT !.lastEventTime = 0, !.activeMs = 0]

reset(e) == [e EXCEPT !.eventWindow = <<>>, !.lastEventTime = 0, !.activeMs = 0]

\* The fields of the engine in eng.
EngineOf(x) ==
  [maxIdleTimeoutMs |-> x.maxIdleTimeoutMs, flowThreshold |-> x.flowThreshold,
   eventWindow |-> x.eventWindow, lastEventTime |-> x.lastEventTime,
   activeMs |-> x.activeMs]

WithEngine(x, e) ==
  [x EXCEPT !.eventWindow = e.eventWindow, !.lastEventTime = e.lastEventTime,
            !.activeMs = e.activeMs]

InitFlow ==
  /\ SnifferInit
  /\ ext = <<>>
  /\ faults = NoFaults
  /\ calc = <<>>
  /\ \E cfg \in Configs :
       eng = [maxIdleTimeoutMs |-> NewEngine(cfg).maxIdleTimeoutMs,
              flowThreshold |-> NewEngine(cfg).flowThreshold,
              eventWindow |-> NewEngine(cfg).eventWindow,
              lastEventTime |-> NewEngine(cfg).lastEventTime,
              activeMs |-> NewEngine(cfg).activeMs,
              cfg |-> cfg, clock |-> StartClock,
              flow |-> NoFlow, now |-> 0,
              hist |-> <<>>, events |-> 0, resets |-> 0]

flowFrame == <<snifferVars, ioVars, log, started, ext, faults, calc>>

\* engine.recordEvent({timestamp: Date.now()}) after `gap` more ms.
RecordEvent(gap) ==
  /\ eng.events < MaxEvents
  /\ LET t == eng.clock + gap
     IN eng' = [WithEngine(eng, recordEvent(EngineOf(eng), t)) EXCEPT
                  !.clock = t, !.hist = Append(@, t), !.events = @ + 1,
                  !.flow = NoFlow, !.now = 0]
  /\ UNCHANGED flowFrame

\* engine.getFlowState(now)
GetFlowState(offset) ==
  /\ LET now == eng.clock + offset
     IN eng' = [eng EXCEPT !.flow = getFlowState(EngineOf(eng), now),
                           !.now = now]
  /\ UNCHANGED flowFrame

\* engine.reset()
Reset ==
  /\ eng.resets < MaxResets
  /\ eng' = [WithEngine(eng, reset(EngineOf(eng))) EXCEPT
               !.hist = <<>>, !.resets = @ + 1, !.flow = NoFlow, !.now = 0]
  /\ UNCHANGED flowFrame

FlowNext ==
  \/ \E gap \in Gaps : RecordEvent(gap)
  \/ \E offset \in NowOffsets : GetFlowState(offset)
  \/ Reset

SpecFlow == InitFlow /\ [][FlowNext]_vars

\* The timestamps SpecFlowAny records, in any order.
Timestamps == {1000, 11000, 61000, 400000}

\* engine.recordEvent({timestamp: t}) with a timestamp of the caller's
\* choice: earlier than, equal to or later than the previous one.
RecordEventAt(t) ==
  /\ eng.events < MaxEvents
  /\ eng' = [WithEngine(eng, recordEvent(EngineOf(eng), t)) EXCEPT
               !.clock = t, !.hist = Append(@, t), !.events = @ + 1,
               !.flow = NoFlow, !.now = 0]
  /\ UNCHANGED flowFrame

FlowAnyNext ==
  \/ \E t \in Timestamps : RecordEventAt(t)
  \/ Reset

SpecFlowAny == InitFlow /\ [][FlowAnyNext]_vars

(***************************************************************************)
(* Claims about the flow engine.                                           *)
(***************************************************************************)
\* The events recorded since the last reset that lie in the 60 s window
\* ending at the latest of them.
WindowCount(h) ==
  Cardinality({i \in 1..Len(h) : h[i] > h[Len(h)] - WINDOW_MS})

\* The idle timeout (ms) in effect after the events h.
TimeoutAfter(h) ==
  IF WindowCount(h) >= eng.cfg[2]
  THEN 4 * eng.cfg[1] * 1000 ELSE eng.cfg[1] * 1000

IsRecordStep == eng'.events = eng.events + 1

C32_EventRateCountsAtMost60s ==
  /\ [](eng.flow # NoFlow =>
          eng.flow.eventRate =
            Cardinality({i \in 1..Len(eng.hist) :
                           eng.now - eng.hist[i] <= WINDOW_MS}))
  /\ [][IsRecordStep =>
          \A i \in 1..Len(eng.eventWindow) :
            eng.eventWindow[i] >= eng'.clock - WINDOW_MS
              => \E j \in 1..Len(eng'.eventWindow) :
                   eng'.eventWindow[j] = eng.eventWindow[i]]_vars

\* C33: once an event has been recorded, isIdle is true exactly when the
\* `now` asked for is more than the idle timeout of the same answer after
\* the last event; before any event and after reset() isIdle is false.
C33_IsIdleIffBeyondTimeout ==
  eng.flow # NoFlow =>
    eng.flow.isIdle =
      (/\ eng.hist # <<>>
       /\ eng.now - eng.hist[Len(eng.hist)] > eng.flow.idleTimeout)

\* C33 witness: an idle answer out of flow, 1200001 ms after the only event
\* recorded since a reset().
C33_Witness ==
  /\ eng.flow # NoFlow
  /\ eng.flow.isIdle
  /\ eng.flow.isInFlow = FALSE
  /\ eng.resets = 1
  /\ Len(eng.hist) = 1
  /\ eng.now - eng.hist[1] = 1200001

\* C37: a recordEvent call, whatever its timestamp, leaves
\* getActiveSeconds() non-negative and not below its value before the call.
C37_ActiveSecondsMonotone ==
  [][IsRecordStep =>
       /\ getActiveSeconds(EngineOf(eng')).num >= 0
       /\ getActiveSeconds(EngineOf(eng')).num
            >= getActiveSeconds(EngineOf(eng)).num]_vars

NonDecreasing(h) == \A i \in 1..(Len(h) - 1) : h[i] <= h[i + 1]

\* C38: for the events recorded since construction or the last reset(),
\* when their timestamps are non-decreasing, activeMs is at most
\* lastEventTime minus the first timestamp, every window entry lies in
\* (lastEventTime - 60 s, lastEventTime], and the newest window entry is
\* lastEventTime.
C38_ActiveBoundedAndWindowInRange ==
  (eng.hist # <<>> /\ NonDecreasing(eng.hist)) =>
    /\ eng.lastEventTime = eng.hist[Len(eng.hist)]
    /\ eng.activeMs <= eng.lastEventTime - eng.hist[1]
    /\ \A i \in 1..Len(eng.eventWindow) :
         /\ eng.eventWindow[i] > eng.lastEventTime - WINDOW_MS
         /\ eng.eventWindow[i] <= eng.lastEventTime
    /\ eng.eventWindow # <<>>
    /\ eng.eventWindow[Len(eng.eventWindow)] = eng.lastEventTime

\* C38 witness: five events since a reset(), two pairs of them with equal
\* timestamps, the older ones pruned from the window, one gap credited and
\* one not.
C38_Witness ==
  /\ eng.resets = 1
  /\ eng.hist = <<1000, 1000, 61000, 400000, 400000>>
  /\ eng.eventWindow = <<400000, 400000>>
  /\ eng.activeMs = 60000

RECURSIVE Replay(_, _)
Replay(e, h) ==
  IF h = <<>> THEN e ELSE Replay(recordEvent(e, Head(h)), Tail(h))

\* C17: the engine is always in the state of a newly constructed engine
\* of the same configuration that was given the events recorded since the
\* last reset(): what came before reset() has no effect.
C17_ResetIsFreshEngine ==
  EngineOf(eng) = Replay(NewEngine(eng.cfg), eng.hist)

\* C17 witness: events, reset(), then T and T + 10 s: 10 active seconds.
C17_Witness ==
  /\ eng.resets = 1
  /\ eng.events > 3
  /\ Len(eng.hist) = 2
  /\ eng.hist[2] - eng.hist[1] = 10000
  /\ getActiveSeconds(EngineOf(eng)).num = 10 * getActiveSeconds(EngineOf(eng)).den

(***************************************************************************)
(* JavaScript numbers.                                                     *)
(*                                                                         *)
(* costUsd, focusSeconds and the cost breakdown are IEEE 754 doubles, and  *)
(* +, * and / round to nearest, ties to even.  A natural number of any     *)
(* size is the sequence of its digits in base LimbBase, lowest first,      *)
(* without a highest 0 (<<>> is 0).  A finite double >= 0 is FZero or      *)
(* [m, e], standing for m * 2^e with m of exactly 53 bits.  Negative       *)
(* numbers, subnormals, infinities and NaN do not arise from token counts, *)
(* prices and seconds.                                                     *)
(***************************************************************************)
MantissaBits == 53
LimbBits == 15
LimbBase == 2^LimbBits

Highest(S) == CHOOSE x \in S : \A y \in S : y <= x
Lowest(S)  == CHOOSE x \in S : \A y \in S : x <= y
Smaller(a, b) == IF a < b THEN a ELSE b

RECURSIVE Limbs(_)
Limbs(k) == IF k = 0 THEN <<>> ELSE <<k % LimbBase>> \o Limbs(k \div LimbBase)

Trim(a) ==
  LET nz == {i \in 1..Len(a) : a[i] # 0}
  IN IF nz = {} THEN <<>> ELSE SubSeq(a, 1, Highest(nz))

Limb(a, i) == IF i <= Len(a) THEN a[i] ELSE 0

\* The number of bits of a.
BitLen(a) ==
  IF a = <<>> THEN 0
  ELSE LimbBits * (Len(a) - 1)
       + Lowest({k \in 1..LimbBits : a[Len(a)] < 2^k})

RECURSIVE LAddFrom(_, _, _, _)
LAddFrom(a, b, c, i) ==
  IF i > Len(a) /\ i > Len(b) THEN (IF c = 0 THEN <<>> ELSE <<c>>)
  ELSE LET t == Limb(a, i) + Limb(b, i) + c
       IN <<t % LimbBase>> \o LAddFrom(a, b, t \div LimbBase, i + 1)

LAdd(a, b) == LAddFrom(a, b, 0, 1)

\* a * k for a limb k.
RECURSIVE LMulSmallFrom(_, _, _, _)
LMulSmallFrom(a, k, c, i) ==
  IF i > Len(a) THEN (IF c = 0 THEN <<>> ELSE <<c>>)
  ELSE LET t == a[i] * k + c
       IN <<t % LimbBase>> \o LMulSmallFrom(a, k, t \div LimbBase, i + 1)

LMulSmall(a, k) == IF k = 0 THEN <<>> ELSE LMulSmallFrom(a, k, 0, 1)

\* a * LimbBase^n.
LShiftLimbs(a, n) == IF a = <<>> THEN <<>> ELSE [i \in 1..n |-> 0] \o a

\* a * 2^s.
LShl(a, s) ==
  LShiftLimbs(LMulSmall(a, 2^(s % LimbBits)), s \div LimbBits)

RECURSIVE LMulFrom(_, _, _)
LMulFrom(a, b, i) ==
  IF i > Len(b) THEN <<>>
  ELSE LAdd(LShiftLimbs(LMulSmall(a, b[i]), i - 1), LMulFrom(a, b, i + 1))

LMul(a, b) == LMulFrom(a, b, 1)

\* Short division by a limb d # 0, from the highest digit i of a down and
\* the remainder r so far: <<quotient digits 1..i, remainder>>.
RECURSIVE LDivSmallFrom(_, _, _, _)
LDivSmallFrom(a, d, i, r) ==
  IF i = 0 THEN <<<<>>, r>>
  ELSE LET t    == r * LimbBase + a[i]
           rest == LDivSmallFrom(a, d, i - 1, t % d)
       IN <<rest[1] \o <<t \div d>>, rest[2]>>

TrimQuotient(qr) == <<Trim(qr[1]), qr[2]>>

LDivSmall(a, d) == TrimQuotient(LDivSmallFrom(a, d, Len(a), 0))

\* <<a div 2^s, whether a mod 2^s is nonzero>>.
LowNonzero(qr, a, n) ==
  <<qr[1], qr[2] # 0 \/ \E i \in 1..Smaller(n, Len(a)) : a[i] # 0>>

LShr(a, s) ==
  LowNonzero(LDivSmall(SubSeq(a, s \div LimbBits + 1, Len(a)),
                       2^(s % LimbBits)),
             a, s \div LimbBits)

FZero == [m |-> <<>>, e |-> 0]

\* The double h * 2^e for h of 53 or 54 bits whose lowest bit is 0 when it
\* has 54.
Normalized(h, e) ==
  IF BitLen(h) > MantissaBits THEN [m |-> LShr(h, 1)[1], e |-> e + 1]
  ELSE [m |-> h, e |-> e]

RoundedUp(high, e, up) ==
  IF up THEN Normalized(LAdd(high, <<1>>), e) ELSE [m |-> high, e |-> e]

\* Ties to even: high is the 53 highest bits, guard the bit below them,
\* rest whether anything nonzero lies below the guard bit.
RoundHalfEven(high, guard, rest, e) ==
  RoundedUp(high, e, guard = 1 /\ (rest \/ high[1] % 2 = 1))

\* hs is <<the 54 highest bits, whether anything nonzero lies below>>.
RoundGuarded(hs, sticky, e) ==
  RoundHalfEven(LShr(hs[1], 1)[1], hs[1][1] % 2, sticky \/ hs[2], e)

RoundLen(n, e, sticky, len) ==
  IF len <= MantissaBits
  THEN [m |-> LShl(n, MantissaBits - len), e |-> e - (MantissaBits - len)]
  ELSE RoundGuarded(LShr(n, len - MantissaBits - 1), sticky,
                    e + len - MantissaBits)

\* The double nearest to n * 2^e (plus a nonzero part below the lowest
\* bit of n when sticky), ties to even.
RoundToDouble(n, e, sticky) ==
  IF n = <<>> THEN FZero ELSE RoundLen(n, e, sticky, BitLen(n))

FromNat(k) == RoundToDouble(Limbs(k), 0, FALSE)

AddAligned(x, y, e0) ==
  RoundToDouble(LAdd(LShl(x.m, x.e - e0), LShl(y.m, y.e - e0)), e0, FALSE)

FAdd(x, y) ==
  IF x = FZero THEN y
  ELSE IF y = FZero THEN x
  ELSE AddAligned(x, y, Smaller(x.e, y.e))

FMul(x, y) ==
  IF x = FZero \/ y = FZero THEN FZero
  ELSE RoundToDouble(LMul(x.m, y.m), x.e + y.e, FALSE)

LowZerosFrom(a, i) ==
  LimbBits * (i - 1)
  + Lowest({k \in 0..(LimbBits - 1) : a[i] % 2^(k + 1) # 0})

\* The number of low zero bits of a # 0.
LowZeros(a) == LowZerosFrom(a, Lowest({j \in 1..Len(a) : a[j] # 0}))

RoundQuotient(qr, e) == RoundToDouble(qr[1], e, qr[2] # 0)

\* x / (d * 2^(ye + z)) for a limb d: two more digits of x are divided by
\* d, which leaves 68 or more bits of the quotient, and the remainder is
\* sticky.
DivOdd(x, ym, ye, z) ==
  RoundQuotient(LDivSmall(LShiftLimbs(x.m, 2), LShr(ym, z)[1][1]),
                x.e - 2 * LimbBits - (ye + z))

\* x / y for y = d * 2^k with d a limb, which 3600, 1000000 and the powers
\* of ten of the decimal literals are.
FDiv(x, y) ==
  IF x = FZero THEN FZero ELSE DivOdd(x, y.m, y.e, LowZeros(y.m))

\* The double a decimal literal num/den denotes.
Dec(num, den) == FDiv(FromNat(num), FromNat(den))

(***************************************************************************)
(* Pricing, buildRecord's cost and the CostCalculator (SpecCost).          *)
(*                                                                         *)
(* A model name is a string; Text gives its characters, so that            *)
(* startsWith is the comparison of characters the code makes.              *)
(***************************************************************************)
ModelNames ==
  {"claude-opus-4-6", "claude-opus-4-5", "claude-sonnet-4-6",
   "claude-sonnet-4-5", "claude-haiku-4-5", "claude-sonnet-4-6-20251022",
   "unknown", "", "claude-haiku", "Claude-Haiku-4-5", "gpt-4"}

Text(name) ==
  CASE name = "claude-opus-4-6" ->
         <<"c", "l", "a", "u", "d", "e", "-", "o", "p", "u", "s", "-", "4", "-", "6">>
    [] name = "claude-opus-4-5" ->
         <<"c", "l", "a", "u", "d", "e", "-", "o", "p", "u", "s", "-", "4", "-", "5">>
    [] name = "claude-sonnet-4-6" ->
         <<"c", "l", "a", "u", "d", "e", "-", "s", "o", "n", "n", "e", "t", "-", "4", "-", "6">>
    [] name = "claude-sonnet-4-5" ->
         <<"c", "l", "a", "u", "d", "e", "-", "s", "o", "n", "n", "e", "t", "-", "4", "-", "5">>
    [] name = "claude-haiku-4-5" ->
         <<"c", "l", "a", "u", "d", "e", "-", "h", "a", "i", "k", "u", "-", "4", "-", "5">>
    [] name = "claude-sonnet-4-6-20251022" ->
         <<"c", "l", "a", "u", "d", "e", "-", "s", "o", "n", "n", "e", "t", "-", "4", "-", "6", "-", "2", "0", "2", "5", "1", "0", "2", "2">>
    [] name = "unknown" ->
         <<"u", "n", "k", "n", "o", "w", "n">>
    [] name = "" -> <<>>
    [] name = "claude-haiku" ->
         <<"c", "l", "a", "u", "d", "e", "-", "h", "a", "i", "k", "u">>
    [] name = "Claude-Haiku-4-5" ->
         <<"C", "l", "a", "u", "d", "e", "-", "H", "a", "i", "k", "u", "-", "4", "-", "5">>
    [] name = "gpt-4" -> <<"g", "p", "t", "-", "4">>

\* String.prototype.toLowerCase on the characters that occur.
LowerChar(c) ==
  CASE c = "C" -> "c" [] c = "S" -> "s" [] c = "O" -> "o" [] c = "H" -> "h"
    [] OTHER -> c

toLowerCase(t) == [i \in 1..Len(t) |-> LowerChar(t[i])]

startsWith(t, prefix) ==
  Len(prefix) <= Len(t) /\ SubSeq(t, 1, Len(prefix)) = prefix

ModelPricing(i, o, cw, cr) ==
  [inputPer1M |-> i, outputPer1M |-> o, cacheWritePer1M |-> cw,
   cacheReadPer1M |-> cr]

\* MODEL_PRICING, in the order of Object.entries.
PricingKeys == <<"claude-opus-4-6", "claude-opus-4-5", "claude-sonnet-4-6", "claude-sonnet-4-5", "claude-haiku-4-5">>

MODEL_PRICING ==
  [k \in {PricingKeys[i] : i \in 1..Len(PricingKeys)} |->
     CASE k \in {"claude-opus-4-6", "claude-opus-4-5"} ->
            ModelPricing(FromNat(15), FromNat(75), Dec(1875, 100), Dec(150, 100))
       [] k \in {"claude-sonnet-4-6", "claude-sonnet-4-5"} ->
            ModelPricing(FromNat(3), FromNat(15), Dec(375, 100), Dec(30, 100))
       [] OTHER ->
            ModelPricing(Dec(80, 100), FromNat(4), Dec(100, 100), Dec(8, 100))]

DEFAULT_PRICING == MODEL_PRICING["claude-sonnet-4-6"]

\* The for loop of getPricing from entry i on.
RECURSIVE PrefixMatch(_, _)
PrefixMatch(lower, i) ==
  IF i > Len(PricingKeys) THEN DEFAULT_PRICING
  ELSE IF startsWith(lower, Text(PricingKeys[i]))
          \/ startsWith(Text(PricingKeys[i]), lower)
       THEN MODEL_PRICING[PricingKeys[i]]
       ELSE PrefixMatch(lower, i + 1)

getPricing(model) ==
  IF model \in DOMAIN MODEL_PRICING THEN MODEL_PRICING[model]
  ELSE PrefixMatch(toLowerCase(Text(model)), 1)

\* toInt of a token count that is a natural number already.
toInt(v) == IF v > 0 THEN v ELSE 0

costUsdWrongPerThousand(tok, model) ==
  LET pricing == getPricing(model)
  IN FDiv(FAdd(FAdd(FAdd(FMul(FromNat(toInt(tok[1])), pricing.inputPer1M),
                         FMul(FromNat(toInt(tok[2])), pricing.outputPer1M)),
                    FMul(FromNat(toInt(tok[3])), pricing.cacheWritePer1M)),
               FMul(FromNat(toInt(tok[4])), pricing.cacheReadPer1M)),
          FromNat(1000))

\* buildRecord: the cost of the four token counts at the model's prices.
costUsd(tok, model) ==
  LET pricing == getPricing(model)
  IN FDiv(FAdd(FAdd(FAdd(FMul(FromNat(toInt(tok[1])), pricing.inputPer1M),
                         FMul(FromNat(toInt(tok[2])), pricing.outputPer1M)),
                    FMul(FromNat(toInt(tok[3])), pricing.cacheWritePer1M)),
               FMul(FromNat(toInt(tok[4])), pricing.cacheReadPer1M)),
          FromNat(1000000))

\* buildRecord: the TokenUsage of an assistant record, with what the
\* CostCalculator reads of it.
PricedUsage(m, tok, model, isSidechain) ==
  [uuid |-> NoUuid, messageId |-> m, tok |-> tok, branchName |-> "",
   model |-> model, costUsd |-> costUsd(tok, model),
   isBackground |-> isSidechain]

\* tokenUsages.reduce((sum, t) => sum + t.costUsd, 0) from `sum` on.
RECURSIVE ReduceCost(_, _)
ReduceCost(sum, usages) ==
  IF usages = <<>> THEN sum
  ELSE ReduceCost(FAdd(sum, Head(usages).costUsd), Tail(usages))

breakdownWrongCountsBackground(hourlyRate, focusSeconds, tokenUsages, includeBackground) ==
  LET focusHours   == FDiv(focusSeconds, FromNat(3600))
      humanCostUsd == FMul(focusHours, hourlyRate)
      aiCostUsd    == ReduceCost(FZero, tokenUsages)
  IN [humanCostUsd |-> humanCostUsd, aiCostUsd |-> aiCostUsd,
      totalCostUsd |-> FAdd(humanCostUsd, aiCostUsd),
      focusHours |-> focusHours]

\* CostCalculator.breakdown of a calculator with the given hourlyRate.
breakdown(hourlyRate, focusSeconds, tokenUsages, includeBackground) ==
  LET filtered     == IF includeBackground THEN tokenUsages
                      ELSE SelectSeq(tokenUsages, LAMBDA t : ~t.isBackground)
      focusHours   == FDiv(focusSeconds, FromNat(3600))
      humanCostUsd == FMul(focusHours, hourlyRate)
      aiCostUsd    == ReduceCost(FZero, filtered)
  IN [humanCostUsd |-> humanCostUsd, aiCostUsd |-> aiCostUsd,
      totalCostUsd |-> FAdd(humanCostUsd, aiCostUsd),
      focusHours |-> focusHours]

Session(focusSeconds, tokenUsage) ==
  [focusSeconds |-> focusSeconds, tokenUsage |-> tokenUsage]

RECURSIVE ReduceFocus(_, _)
ReduceFocus(sum, sessions) ==
  IF sessions = <<>> THEN sum
  ELSE ReduceFocus(FAdd(sum, Head(sessions).focusSeconds), Tail(sessions))

RECURSIVE FlatMapUsage(_)
FlatMapUsage(sessions) ==
  IF sessions = <<>> THEN <<>>
  ELSE Head(sessions).tokenUsage \o FlatMapUsage(Tail(sessions))

branchBreakdown(hourlyRate, sessions, includeBackground) ==
  breakdown(hourlyRate, ReduceFocus(FZero, sessions), FlatMapUsage(sessions),
            includeBackground)

\* The frames the log holds in SpecCost: one API call per messageId.
CostMIds == {"c1", "c2", "c3"}

CostUsageOf(m) ==
  CASE m = "c1" -> PricedUsage(m, <<1000, 500, 0, 0>>, "claude-sonnet-4-6", FALSE)
    [] m = "c2" -> PricedUsage(m, <<2000, 1000, 0, 0>>, "claude-sonnet-4-6", FALSE)
    [] OTHER    -> PricedUsage(m, <<100, 7, 0, 0>>, "claude-haiku-4-5", FALSE)

CostFrames ==
  { ParsedRecord(m, stop, CostUsageOf(m)) : m \in CostMIds, stop \in {NULL, "end_turn"} }
  \cup { ParsedRecord("c3", "end_turn", [CostUsageOf("c3") EXCEPT !.isBackground = TRUE]),
         ParsedRecord("c2", "end_turn",
                      PricedUsage("c2", <<0, 0, 300, 40>>,
                                  "claude-sonnet-4-6-20251022", FALSE)) }

\* devvalue.hourlyRate, and the focus seconds of a session.
HourlyRate == FromNat(75)
FocusValues == {0, 1800, 5400}

NoCall == [op |-> "none"]

InitCost ==
  /\ SnifferInit
  /\ ext = <<>>
  /\ faults = NoFaults
  /\ eng = <<>>
  /\ calc = NoCall

\* rl.on('line') with one frame of the log.
CLine(rec) ==
  /\ started
  /\ CountOp("line") < MaxCostLines
  /\ LET st == IngestParsed(<<pending, emitted>>, rec)
     IN /\ pending' = st[1]
        /\ emitted' = st[2]
  /\ log' = Append(log, LineEntry(rec))
  /\ calc' = NoCall
  /\ UNCHANGED <<running, pollTimer, fileOffsets, watchers, ioVars, started,
                 ext, faults, eng>>

\* calc.breakdown(focusSeconds, usages, includeBackground) on the usages
\* the sniffer has emitted.
CBreakdown(fs, includeBackground) ==
  /\ calc = NoCall
  /\ calc' = [op |-> "breakdown", focusSeconds |-> FromNat(fs),
              tokenUsages |-> emitted, includeBackground |-> includeBackground,
              result |-> breakdown(HourlyRate, FromNat(fs), emitted,
                                   includeBackground)]
  /\ UNCHANGED <<snifferVars, ioVars, log, started, ext, faults, eng>>

\* calc.branchBreakdown over two sessions that share the emitted usages.
CBranchBreakdown(k, fs1, fs2, includeBackground) ==
  /\ calc = NoCall
  /\ LET sessions == <<Session(FromNat(fs1), SubSeq(emitted, 1, k)),
                       Session(FromNat(fs2), SubSeq(emitted, k + 1, Len(emitted)))>>
     IN calc' = [op |-> "branchBreakdown", sessions |-> sessions,
                 includeBackground |-> includeBackground,
                 result |-> branchBreakdown(HourlyRate, sessions,
                                            includeBackground)]
  /\ UNCHANGED <<snifferVars, ioVars, log, started, ext, faults, eng>>

CostNext ==
  \/ DStart
  \/ \E rec \in CostFrames : CLine(rec)
  \/ \E fs \in FocusValues, b \in BOOLEAN : CBreakdown(fs, b)
  \/ \E k \in 0..Len(emitted), fs1 \in FocusValues, fs2 \in FocusValues,
        b \in BOOLEAN : CBranchBreakdown(k, fs1, fs2, b)

SpecCost == InitCost /\ [][CostNext]_vars

(***************************************************************************)
(* Claims on SpecCost.                                                     *)
(***************************************************************************)
\* sum + t.costUsd over the first k usages, in the order of the array,
\* skipping the background ones unless includeBackground.
RECURSIVE SumCostUpTo(_, _, _)
SumCostUpTo(usages, k, includeBackground) ==
  IF k = 0 THEN FZero
  ELSE LET prev == SumCostUpTo(usages, k - 1, includeBackground)
       IN IF includeBackground \/ ~usages[k].isBackground
          THEN FAdd(prev, usages[k].costUsd)
          ELSE prev

IsBreakdown == calc.op = "breakdown"

\* C18: breakdown(focusSeconds, usages, includeBackground) returns aiCostUsd
\* = the sum of costUsd over the records that are not background (over all
\* records when includeBackground), humanCostUsd = (focusSeconds / 3600) x
\* hourlyRate and totalCostUsd = humanCostUsd + aiCostUsd, nothing clamped
\* or rounded, and the array it was given is what it was before the call.
C18_BreakdownSums ==
  IsBreakdown =>
    /\ calc.result.aiCostUsd
         = SumCostUpTo(calc.tokenUsages, Len(calc.tokenUsages),
                       calc.includeBackground)
    /\ calc.result.humanCostUsd
         = FMul(FDiv(calc.focusSeconds, FromNat(3600)), HourlyRate)
    /\ calc.result.totalCostUsd
         = FAdd(calc.result.humanCostUsd, calc.result.aiCostUsd)
    /\ emitted = calc.tokenUsages

C18_Witness ==
  /\ IsBreakdown
  /\ ~calc.includeBackground
  /\ calc.focusSeconds = FromNat(5400)
  /\ \E i, j \in 1..Len(calc.tokenUsages) :
       calc.tokenUsages[i].isBackground /\ ~calc.tokenUsages[j].isBackground
  /\ calc.result.aiCostUsd # FZero

Permuted(usages, p) == [i \in 1..Len(usages) |-> usages[p[i]]]

\* C19: breakdown returns the same CostBreakdown for every permutation of
\* the usage records, and branchBreakdown over sessions is the breakdown of
\* the summed focusSeconds and the concatenated usages, whatever the order
\* of the sessions.
C19_OrderIndependent ==
  /\ IsBreakdown =>
       \A p \in Permutations(1..Len(calc.tokenUsages)) :
         breakdown(HourlyRate, calc.focusSeconds,
                   Permuted(calc.tokenUsages, p), calc.includeBackground)
           = calc.result
  /\ calc.op = "branchBreakdown" =>
       /\ calc.result
            = breakdown(HourlyRate,
                        FAdd(calc.sessions[1].focusSeconds,
                             calc.sessions[2].focusSeconds),
                        calc.sessions[1].tokenUsage
                          \o calc.sessions[2].tokenUsage,
                        calc.includeBackground)
       /\ calc.result
            = branchBreakdown(HourlyRate,
                              <<calc.sessions[2], calc.sessions[1]>>,
                              calc.includeBackground)

LinesOfLog == SelectSeq(log, LAMBDA e : e.op = "line")

\* (input x p.in + output x p.out + cacheWrite x p.cw + cacheRead x p.cr)
\* / 1,000,000 for the frame of a log entry.
FrameCost(e) ==
  LET u == e.rec.usage
      p == getPricing(u.model)
  IN FDiv(FAdd(FAdd(FAdd(FMul(FromNat(u.tok[1]), p.inputPer1M),
                         FMul(FromNat(u.tok[2]), p.outputPer1M)),
                    FMul(FromNat(u.tok[3]), p.cacheWritePer1M)),
               FMul(FromNat(u.tok[4]), p.cacheReadPer1M)),
          FromNat(1000000))

\* The sum of FrameCost over the first k lines, in the order they were
\* read, skipping the sidechain frames unless includeBackground.
RECURSIVE SumFrameCost(_, _, _)
SumFrameCost(lines, k, includeBackground) ==
  IF k = 0 THEN FZero
  ELSE LET prev == SumFrameCost(lines, k - 1, includeBackground)
       IN IF includeBackground \/ ~lines[k].rec.usage.isBackground
          THEN FAdd(prev, FrameCost(lines[k]))
          ELSE prev

\* The lines read so far are final frames of pairwise distinct messageIds.
DistinctFinals ==
  /\ \A i \in 1..Len(LinesOfLog) : IsFinal(LinesOfLog[i])
  /\ \A i, j \in 1..Len(LinesOfLog) :
       i # j => LinesOfLog[i].rec.messageId # LinesOfLog[j].rec.messageId

\* The finals (1000 in, 500 out) and (2000 in, 1000 out) on
\* claude-sonnet-4-6, and no other line.
ExampleFinals ==
  {LinesOfLog[i].rec : i \in 1..Len(LinesOfLog)}
    = {ParsedRecord(m, "end_turn", CostUsageOf(m)) : m \in {"c1", "c2"}}

\* C20: when the sniffer has ingested final frames of pairwise distinct
\* messageIds and breakdown aggregates what it emitted, aiCostUsd is the sum
\* of (input x p.in + output x p.out + cacheWrite x p.cw + cacheRead x p.cr)
\* / 1,000,000 over the frames breakdown does not filter out, which are the
\* frames that are not sidechain ones, or all frames with includeBackground;
\* the finals (1000 in, 500 out) and (2000 in, 1000 out) on
\* claude-sonnet-4-6 give 0.0315.
C20_EndToEndCost ==
  (IsBreakdown /\ DistinctFinals) =>
    /\ calc.result.aiCostUsd
         = SumFrameCost(LinesOfLog, Len(LinesOfLog), calc.includeBackground)
    /\ ExampleFinals => calc.result.aiCostUsd = Dec(315, 10000)

C20_Witness ==
  /\ IsBreakdown /\ DistinctFinals /\ ExampleFinals
  /\ ~calc.includeBackground
  /\ calc.result.aiCostUsd = Dec(315, 10000)

\* C20 as stated: aiCostUsd is the sum over all the frames, sidechain or
\* not, whatever includeBackground is.
C20_SumOverAllFrames ==
  (IsBreakdown /\ DistinctFinals) =>
    calc.result.aiCostUsd = SumFrameCost(LinesOfLog, Len(LinesOfLog), TRUE)

(***************************************************************************)
(* getPricing on model strings (SpecPrice).                                *)
(***************************************************************************)
\* The token counts buildRecord prices in SpecPrice.
PriceToks ==
  { <<i, o, cw, cr>> : i \in {0, 1000}, o \in {0, 500},
                       cw \in {0, 300}, cr \in {0, 40} }

\* buildRecord: getPricing(model) and the cost of the token counts.
CGetPricing(model, tok) ==
  /\ calc = NoCall
  /\ calc' = [op |-> "getPricing", model |-> model, tok |-> tok,
              result |-> getPricing(model), costUsd |-> costUsd(tok, model)]
  /\ UNCHANGED <<snifferVars, ioVars, log, started, ext, faults, eng>>

PriceNext ==
  \/ DStart
  \/ \E model \in ModelNames, tok \in PriceToks : CGetPricing(model, tok)

SpecPrice == InitCost /\ [][PriceNext]_vars

\* The listed keys the lower-cased model string starts with.
KeysStarting(model) ==
  {k \in DOMAIN MODEL_PRICING : startsWith(toLowerCase(Text(model)), Text(k))}

\* C22: getPricing(model) is the listed entry when model is a listed key or
\* its lower-cased form starts with a listed key, and DEFAULT_PRICING for
\* every other model string, the empty string, 'unknown' and a string that
\* is only a prefix of a listed key included.
C22_GetPricing ==
  calc.op = "getPricing" =>
    calc.result
      = IF calc.model \in DOMAIN MODEL_PRICING THEN MODEL_PRICING[calc.model]
        ELSE IF KeysStarting(calc.model) # {}
        THEN MODEL_PRICING[CHOOSE k \in KeysStarting(calc.model) : TRUE]
        ELSE DEFAULT_PRICING

(***************************************************************************)
(* Read passes over files whose lines are given (SpecOrder).               *)
(*                                                                         *)
(* fileLines holds what each file will hold in the end; a read pass over f *)
(* reads the k lines after the stored offset that f held when the pass     *)
(* looked at its size, and stores the new offset.  Passes over different   *)
(* files come in any order.                                                *)
(***************************************************************************)
OrderFrames ==
  FileFrames \cup {ParsedRecord("m2", "end_turn", TokenUsage(NoUuid, "m2", FinalTok, ""))}

\* The contents of a file: up to MaxFileLines frames.
MaxFileLines == 2
OrderContents ==
  UNION {[1..n -> OrderFrames] : n \in 0..MaxFileLines}

InitOrder ==
  /\ running = FALSE
  /\ pollTimer = FALSE
  /\ fileOffsets = [f \in Files |-> 0]
  /\ watchers = {}
  /\ pending = <<>>
  /\ emitted = <<>>
  /\ fileLines \in [Files -> OrderContents]
  /\ osWatch = [f \in Files |-> 0]
  /\ notif = [f \in Files |-> 0]
  /\ scans = FirstScanOnly
  /\ passes = [p \in PassIds |-> IdlePass]
  /\ lineReads = [f \in Files |-> <<>>]
  /\ log = <<>>
  /\ started = FALSE
  /\ ext = <<>>
  /\ AuxInit

FilePassEntry(f, lines) == [op |-> "pass", file |-> f, lines |-> lines]

\* readNewLines(f) of a running sniffer, from stat to 'close'.
OPass(f, k) ==
  /\ running
  /\ fileOffsets[f] + k <= Len(fileLines[f])
  /\ LET lines == SubSeq(fileLines[f], fileOffsets[f] + 1, fileOffsets[f] + k)
         st    == IngestAll(<<pending, emitted>>, lines)
     IN /\ pending' = st[1]
        /\ emitted' = st[2]
        /\ log' = Append(log, FilePassEntry(f, lines))
  /\ fileOffsets' = [fileOffsets EXCEPT ![f] = @ + k]
  /\ UNCHANGED <<running, pollTimer, watchers, ioVars, started, ext, auxVars>>

AllRead == \A f \in Files : fileOffsets[f] = Len(fileLines[f])

\* stop() once every line has been read.
OStop == AllRead /\ DStop

OrderNext ==
  \/ DStart
  \/ OStop
  \/ \E f \in Files, k \in 1..MaxFileLines : OPass(f, k)

SpecOrder == InitOrder /\ [][OrderNext]_vars

\* What reading the files one after the other and then stop() emits.
FileByFile ==
  LET st == IngestAll(IngestAll(<<<<>>, <<>>>>, fileLines["f1"]),
                      fileLines["f2"])
  IN st[2] \o StopFlush(st[1])

Occurrences(seq, u) == Cardinality({i \in 1..Len(seq) : seq[i] = u})

SameMultiset(a, b) ==
  \A u \in {a[i] : i \in 1..Len(a)} \cup {b[i] : i \in 1..Len(b)} :
    Occurrences(a, u) = Occurrences(b, u)

\* C23: whatever the order of the read passes over the files, the multiset
\* of 'usage' events emitted up to and including stop() is the one that
\* reading the files one after the other gives.
C23_OrderAcrossFilesIrrelevant ==
  (~running /\ CountOp("stop") > 0) => SameMultiset(emitted, FileByFile)

(***************************************************************************)
(* Discovery scans that overlap (SpecScans).                               *)
(*                                                                         *)
(* The files hold their lines from the start and nothing is appended, so   *)
(* no watcher callback runs: start(), stop(), the timer and up to MaxScans *)
(* scanAndWatch invocations in flight at once.                             *)
(***************************************************************************)
ScanContents ==
  { <<>>,
    <<ParsedRecord("m1", NULL, TokenUsage(NoUuid, "m1", PartialTok, ""))>>,
    <<ParsedRecord("m1", NULL, TokenUsage(NoUuid, "m1", PartialTok, "")),
      ParsedRecord("m1", "end_turn", TokenUsage(NoUuid, "m1", FinalTok, ""))>> }

InitScans ==
  /\ running = FALSE
  /\ pollTimer = FALSE
  /\ fileOffsets = [f \in Files |-> 0]
  /\ watchers = {}
  /\ pending = <<>>
  /\ emitted = <<>>
  /\ fileLines \in [Files -> ScanContents]
  /\ osWatch = [f \in Files |-> 0]
  /\ notif = [f \in Files |-> 0]
  /\ scans = [s \in ScanIds |-> IdleScan]
  /\ passes = [p \in PassIds |-> IdlePass]
  /\ lineReads = [f \in Files |-> [i \in 1..Len(fileLines[f]) |-> 0]]
  /\ log = <<>>
  /\ started = FALSE
  /\ ext = <<>>
  /\ AuxInit

ScansNext ==
  \/ Start
  \/ Stop
  \/ Tick
  \/ \E s \in ScanIds : ScanGlob(s)
  \/ \E s \in ScanIds : ScanStat(s)
  \/ \E s \in ScanIds : ScanRead(s)
  \/ \E s \in ScanIds : ScanWatch(s)

SpecScans == InitScans /\ [][ScansNext]_vars

\* C27: a watch is attached to a file only by a scan whose catch-up read of
\* that file is over, and a discovery scan neither starts nor carries out a
\* read of a file that already has a watch: no step ingests lines of a
\* watched file.
C27_CatchUpBeforeWatchAndNoReread ==
  [][ /\ \A f \in Files :
           osWatch'[f] > osWatch[f] =>
             \E s \in ScanIds : /\ scans[s].pc = "watch"
                                /\ scans[s].file = f
                                /\ scans'[s] # scans[s]
      /\ \A f \in Files :
           lineReads'[f] # lineReads[f] => ~(f \in watchers) ]_vars

\* C28: at most one timer, at most one open watcher per file, and every open
\* watcher is the one recorded in the watchers map.
C28_OneTimerOneWatcherAllRecorded ==
  /\ (pollTimer => running)
  /\ \A f \in Files : osWatch[f] <= 1
  /\ \A f \in Files : osWatch[f] > 0 => f \in watchers

(***************************************************************************)
(* Restarts of the extension (SpecRestart).                                *)
(*                                                                         *)
(* The activate() that deduplicates by uuid alone, with one sniffer and    *)
(* the storage behind StorageAdapter.  ext holds the log file (every line  *)
(* with a uuid has its own), the Session[] in storage, the closure state   *)
(* of activate() and the sniffer behind the adapter: running, pending and  *)
(* pos, the number of lines of the file it has read since it was built.    *)
(* loaded and replayed are history: the uuids storage held at the last     *)
(* restart, and the uuids onUsage has turned down.                         *)
(***************************************************************************)
BranchOrder == <<"HEAD", "main">>

NewSession(branch, usages) == [branchName |-> branch, tokenUsage |-> usages]

getOrCreateSession(sessions, branch) ==
  IF branch \in DOMAIN sessions THEN sessions
  ELSE sessions @@ (branch :> NewSession(branch, <<>>))

\* StorageAdapter.saveSessions: Array.from(sessions.values()).
RECURSIVE SessionValues(_, _)
SessionValues(sessions, order) ==
  IF order = <<>> THEN <<>>
  ELSE IF Head(order) \in DOMAIN sessions
  THEN <<sessions[Head(order)]>> \o SessionValues(sessions, Tail(order))
  ELSE SessionValues(sessions, Tail(order))

saveSessions(sessions) == SessionValues(sessions, BranchOrder)

\* StorageAdapter.loadSessions: map.set(session.branchName, session) for
\* every stored session, in order.
RECURSIVE loadSessionsFrom(_, _)
loadSessionsFrom(map, stored) ==
  IF stored = <<>> THEN map
  ELSE loadSessionsFrom(
         [b \in (DOMAIN map) \cup {Head(stored).branchName} |->
            IF b = Head(stored).branchName THEN Head(stored) ELSE map[b]],
         Tail(stored))

loadSessions(stored) == loadSessionsFrom(<<>>, stored)

\* The uuids of the usages of a Map of sessions.
UuidsOf(sessions) ==
  { sessions[b].tokenUsage[i].uuid : <<b, i>> \in
      { <<b, i>> \in (DOMAIN sessions) \X (1..(MaxLogLines * (MaxRestarts + 1))) :
          i <= Len(sessions[b].tokenUsage) } }

seenUuidsOfWrongEmpty(sessions) == {}

\* The seenUuids set activate() builds from the loaded sessions.
seenUuidsOf(sessions) == UuidsOf(sessions) \ {NoUuid}

\* onUsage of this activate(): `written` tells whether the save it starts
\* and does not await reaches storage.
onUsageSaving(x, usage, written) ==
  IF usage.uuid # NoUuid /\ usage.uuid \in x.seenUuids
  THEN [x EXCEPT !.replayed = @ \cup {usage.uuid}]
  ELSE LET branch == IF usage.branchName # "" THEN usage.branchName
                     ELSE x.currentBranch
           ss     == getOrCreateSession(x.sessions, branch)
           tt     == [ss EXCEPT ![branch].tokenUsage = Append(@, usage)]
       IN [x EXCEPT !.seenUuids =
                       IF usage.uuid # NoUuid THEN @ \cup {usage.uuid} ELSE @,
                    !.sessions = tt,
                    !.stored = IF written THEN saveSessions(tt) ELSE @]

RECURSIVE DeliverSaving(_, _, _)
DeliverSaving(x, out, written) ==
  IF out = <<>> THEN x
  ELSE DeliverSaving(onUsageSaving(x, Head(out), written), Tail(out), written)

\* The line another process appends as line i of the log file.
LogLine(i, stop, hasUuid) ==
  ParsedRecord("m1", stop,
    TokenUsage(IF hasUuid THEN <<"line", i>> ELSE NoUuid, "m1",
               IF stop = NULL THEN PartialTok ELSE FinalTok, ""))

\* activate() on the storage `stored`, the sniffer built and started.
Activated(file, stored, cur, restarts) ==
  [pc |-> "run",
   file |-> file,
   stored |-> stored,
   sessions |-> loadSessions(stored),
   seenUuids |-> seenUuidsOf(loadSessions(stored)),
   currentBranch |-> cur,
   sn |-> [running |-> TRUE, pending |-> <<>>],
   pos |-> 0,
   restarts |-> restarts,
   loaded |-> UuidsOf(loadSessions(stored)) \ {NoUuid},
   replayed |-> {}]

InitRestart ==
  /\ SnifferInit
  /\ AuxInit
  /\ \E cur \in Branches : ext = Activated(<<>>, <<>>, cur, 0)

RAppend(stop, hasUuid) ==
  /\ Len(ext.file) < MaxLogLines
  /\ ext' = [ext EXCEPT !.file =
               Append(@, LogLine(Len(ext.file) + 1, stop, hasUuid))]
  /\ UNCHANGED <<snifferVars, ioVars, log, started>>
  /\ UNCHANGED auxVars

\* rl.on('line') for the next line of the file.
RLine(written) ==
  /\ ext.pos < Len(ext.file)
  /\ LET st == IngestParsed(<<ext.sn.pending, <<>> >>, ext.file[ext.pos + 1])
     IN ext' = DeliverSaving([ext EXCEPT !.sn.pending = st[1], !.pos = @ + 1],
                             st[2], written)
  /\ UNCHANGED <<snifferVars, ioVars, log, started>>
  /\ UNCHANGED auxVars

\* devvalue.stopTracking: the adapter is disposed, the sniffer stopped.
RCmdStop(written) ==
  /\ ext' = IF ext.sn.running
            THEN DeliverSaving(
                   [ext EXCEPT !.sn = [running |-> FALSE, pending |-> <<>>]],
                   StopFlush(ext.sn.pending), written)
            ELSE ext
  /\ UNCHANGED <<snifferVars, ioVars, log, started>>
  /\ UNCHANGED auxVars

\* devvalue.startTracking.
RCmdStart ==
  /\ ext' = [ext EXCEPT !.sn.running = TRUE]
  /\ UNCHANGED <<snifferVars, ioVars, log, started>>
  /\ UNCHANGED auxVars

\* devvalue.resetBranch, and the reset of a branch from the dashboard.
RReset(branch) ==
  /\ LET ss == [b \in (DOMAIN ext.sessions) \ {branch} |-> ext.sessions[b]]
     IN ext' = [ext EXCEPT !.sessions = ss, !.stored = saveSessions(ss)]
  /\ UNCHANGED <<snifferVars, ioVars, log, started>>
  /\ UNCHANGED auxVars

\* tick(): on a branch switch the sessions are saved first.
RTick(newBranch) ==
  /\ LET switched == newBranch # ext.currentBranch
         old      == IF switched
                     THEN getOrCreateSession(ext.sessions, ext.currentBranch)
                     ELSE ext.sessions
     IN ext' = [ext EXCEPT
                  !.currentBranch = newBranch,
                  !.sessions = getOrCreateSession(old, newBranch),
                  !.stored = IF switched THEN saveSessions(old) ELSE @]
  /\ UNCHANGED <<snifferVars, ioVars, log, started>>
  /\ UNCHANGED auxVars

\* The window is closed or reloaded (deactivate() saves the sessions) or
\* the process dies; then activate() runs again on what storage holds.
RRestart(clean, cur) ==
  /\ ext.restarts < MaxRestarts
  /\ ext' = Activated(ext.file,
                      IF clean THEN saveSessions(ext.sessions) ELSE ext.stored,
                      cur, ext.restarts + 1)
  /\ UNCHANGED <<snifferVars, ioVars, log, started>>
  /\ UNCHANGED auxVars

RestartNext ==
  \/ \E stop \in {NULL, "end_turn"}, hasUuid \in BOOLEAN : RAppend(stop, hasUuid)
  \/ \E written \in BOOLEAN : RLine(written)
  \/ \E written \in BOOLEAN : RCmdStop(written)
  \/ RCmdStart
  \/ \E b \in Branches : RReset(b)
  \/ \E b \in Branches : RTick(b)
  \/ \E clean \in BOOLEAN, cur \in Branches : RRestart(clean, cur)

SpecRestart == InitRestart /\ [][RestartNext]_vars

\* The number of stored usages that carry the uuid u, over all sessions.
UuidCount(x, u) ==
  Cardinality(
    { <<b, i>> \in (DOMAIN x.sessions) \X (1..(MaxLogLines * (MaxRestarts + 1))) :
        i <= Len(x.sessions[b].tokenUsage) /\ x.sessions[b].tokenUsage[i].uuid = u })

LineUuids == {<<"line", i>> : i \in 1..MaxLogLines}

\* C30: every uuid occurs at most once across all sessions, and after a
\* restart no step adds a usage whose uuid the reloaded sessions held.
C30_ReplayAtMostOncePerUuid ==
  /\ [](\A u \in LineUuids : UuidCount(ext, u) <= 1)
  /\ [][ \A u \in ext.loaded : UuidCount(ext', u) <= UuidCount(ext, u)
           \/ ext'.restarts # ext.restarts ]_vars

\* C30 witness: after a restart the whole file has been read again, and a
\* line whose usage storage held was turned down and is stored once.
C30_Witness ==
  /\ ext.restarts > 0
  /\ ext.pos = Len(ext.file)
  /\ ext.pos = MaxLogLines
  /\ \E u \in ext.loaded \cap ext.replayed : UuidCount(ext, u) = 1

(***************************************************************************)
(* stop() followed by start() on one sniffer (SpecTail).                   *)
(*                                                                         *)
(* Spec with a history of the last stop(): log holds, from the stop() of a *)
(* running sniffer on, how often each line had been processed when stop()  *)
(* was called, and whether start() has been called since.                  *)
(***************************************************************************)
TStart ==
  /\ NoMicro
  /\ IF running
     THEN UNCHANGED vars
     ELSE /\ FreeScans # {}
          /\ StartCore
          /\ scans' = [scans EXCEPT ![LowestOf(FreeScans)] =
                         [IdleScan EXCEPT !.pc = "glob"]]
          /\ log' = IF log = <<>> THEN log
                    ELSE <<[log[1] EXCEPT !.op = "restarted"]>>
          /\ UNCHANGED <<fileOffsets, watchers, pending, emitted, fileLines,
                         osWatch, notif, passes, lineReads, ext>>
  /\ UNCHANGED auxVars

TStop ==
  /\ NoMicro
  /\ StopCore
  /\ osWatch' = [f \in Files |->
                   IF f \in watchers /\ ~(f \in watchers') /\ osWatch[f] > 0
                   THEN osWatch[f] - 1 ELSE osWatch[f]]
  /\ notif' = [f \in Files |-> IF osWatch'[f] = 0 THEN 0 ELSE notif[f]]
  /\ log' = IF running THEN <<[op |-> "stopped", reads |-> lineReads]>>
            ELSE log
  /\ UNCHANGED <<fileOffsets, fileLines, scans, passes, lineReads,
                 started, ext>>
  /\ UNCHANGED auxVars

TailNext ==
  \/ TStart
  \/ TStop
  \/ Tick
  \/ \E s \in ScanIds : ScanGlob(s)
  \/ \E s \in ScanIds : ScanStat(s)
  \/ \E s \in ScanIds : ScanRead(s)
  \/ \E s \in ScanIds : ScanWatch(s)
  \/ \E f \in Files : WatchCallback(f)
  \/ \E p \in PassIds : PassStat(p)
  \/ \E p \in PassIds : PassRead(p)
  \/ \E f \in Files : \E rec \in FileFrames : AppendLine(f, rec)

SpecTail == Init /\ [][TailNext]_vars

\* C31: stop() and start() leave the stored offsets as they are, and after
\* stop() followed by start() no final frame that had been processed (and
\* so emitted) before the stop() is processed again.
C31_RestartableWithoutReemission ==
  /\ [][running' # running => fileOffsets' = fileOffsets]_vars
  /\ [](log # <<>> /\ log[1].op = "restarted" =>
          \A f \in Files : \A i \in 1..Len(log[1].reads[f]) :
            (fileLines[f][i].stopReason # NULL /\ log[1].reads[f][i] > 0)
              => lineReads[f][i] = log[1].reads[f][i])

(***************************************************************************)
(* The one-shot report (SpecHist).                                         *)
(*                                                                         *)
(* ext holds the log files as they are when the report runs (every line    *)
(* an assistant record with a usage object and a uuid of its own), the     *)
(* files readAll has still to read, its results so far and, once runReport *)
(* has filtered them, the usages it aggregates.                            *)
(***************************************************************************)
\* The assistant records a file can hold: <<message.id, stop_reason>>.
HistKinds == MIds \X {NULL, "end_turn"}

HistContents ==
  UNION { [1..n -> HistKinds] : n \in 0..MaxHistLines }

\* Line i of file f, of the kind k.
HistLine(f, i, k) ==
  [uuid |-> <<f, i>>, messageId |-> k[1], stopReason |-> k[2],
   tok |-> IF k[2] = NULL THEN PartialTok ELSE FinalTok]

\* parseLine of HistoricalTokenReader: the TokenUsage of an assistant
\* record; message.id and stop_reason are not read.
historicalParseLine(line) ==
  [uuid |-> line.uuid, tok |-> line.tok, branchName |-> ""]

\* readFile: the usages of every line of the file, in order.
historicalReadFile(lines) ==
  [i \in 1..Len(lines) |-> historicalParseLine(lines[i])]

\* The uuid filter of runReport over allUsages.
RECURSIVE FilterSeen(_, _, _)
FilterSeen(allUsages, seen, kept) ==
  IF allUsages = <<>> THEN kept
  ELSE LET u == Head(allUsages)
       IN IF u.uuid = NoUuid
          THEN FilterSeen(Tail(allUsages), seen, Append(kept, u))
          ELSE IF u.uuid \in seen
          THEN FilterSeen(Tail(allUsages), seen, kept)
          ELSE FilterSeen(Tail(allUsages), seen \cup {u.uuid}, Append(kept, u))

InitHist ==
  /\ SnifferInit
  /\ AuxInit
  /\ \E c \in [Files -> HistContents] :
       ext = [pc |-> "read",
              files |-> [f \in Files |->
                           [i \in 1..Len(c[f]) |-> HistLine(f, i, c[f][i])]],
              todo |-> GlobOrder,
              results |-> <<>>,
              usages |-> <<>>]

\* One turn of the loop of readAll.
HReadFile ==
  /\ ext.pc = "read"
  /\ ext.todo # <<>>
  /\ ext' = [ext EXCEPT
               !.results = @ \o historicalReadFile(ext.files[Head(ext.todo)]),
               !.todo = Tail(@)]
  /\ UNCHANGED <<snifferVars, ioVars, log, started>>
  /\ UNCHANGED auxVars

\* readAll returns; runReport filters allUsages by uuid.
HReport ==
  /\ ext.pc = "read"
  /\ ext.todo = <<>>
  /\ ext' = [ext EXCEPT !.pc = "done",
                        !.usages = FilterSeen(ext.results, {}, <<>>)]
  /\ UNCHANGED <<snifferVars, ioVars, log, started>>
  /\ UNCHANGED auxVars

HistNext ==
  \/ HReadFile
  \/ HReport

SpecHist == InitHist /\ [][HistNext]_vars

\* The lines of the messageId m, over the files in the order they are read.
RECURSIVE HistLinesOf(_, _)
HistLinesOf(m, order) ==
  IF order = <<>> THEN <<>>
  ELSE SelectSeq(ext.files[Head(order)], LAMBDA l : l.messageId = m)
         \o HistLinesOf(m, Tail(order))

\* The line a usage was parsed from.
HistSource(u) == ext.files[u.uuid[1]][u.uuid[2]]

\* C34: when the report has filtered its usages, a messageId written as
\* partial frames followed by one final frame has exactly one usage among
\* them, and that usage carries the token counts of the final frame.
C34_HistoricalOncePerMessageId ==
  ext.pc = "done" =>
    \A m \in MIds :
      LET ls == HistLinesOf(m, GlobOrder)
      IN (/\ Len(ls) >= 2
          /\ ls[Len(ls)].stopReason # NULL
          /\ \A i \in 1..(Len(ls) - 1) : ls[i].stopReason = NULL)
           => /\ Cardinality({k \in 1..Len(ext.usages) :
                               HistSource(ext.usages[k]).messageId = m}) = 1
              /\ \A k \in 1..Len(ext.usages) :
                   HistSource(ext.usages[k]).messageId = m
                     => ext.usages[k].tok = FinalTok

(***************************************************************************)
(* The validate-tokens script (SpecValidate).                              *)
(*                                                                         *)
(* ext holds the log files, the files the main loop has still to read (in  *)
(* the order the globs gave them), the number of lines the readFile in     *)
(* progress has delivered, the global dedup map and, as history, the       *)
(* records read so far.  A record is <<message.id, stop_reason>> with the  *)
(* line it stands on, which stands for its token counts and timestamp.     *)
(***************************************************************************)
ValContents ==
  UNION { [1..n -> HistKinds] : n \in 0..MaxValLines }

\* parseLine of the script on line i of file f, of the kind k.
ValRecord(f, i, k) ==
  [messageId |-> k[1], stopReason |-> k[2], line |-> <<f, i>>]

FileOrders == {<<"f1", "f2">>, <<"f2", "f1">>}

validateLineWrongPartialOverwrites(map, rec) == MapSet(map, rec)

\* The 'line' handler of readFile on a parsed record.
validateLine(map, rec) ==
  IF rec.stopReason # NULL
  THEN MapSet(map, rec)
  ELSE IF ~MapHas(map, rec.messageId)
  THEN MapSet(map, rec)
  ELSE IF MapGet(map, rec.messageId).stopReason = NULL
  THEN MapSet(map, rec)
  ELSE map

InitValidate ==
  /\ SnifferInit
  /\ AuxInit
  /\ \E c \in [Files -> ValContents], order \in FileOrders :
       ext = [files |-> [f \in Files |->
                           [i \in 1..Len(c[f]) |-> ValRecord(f, i, c[f][i])]],
              todo |-> order,
              pos |-> 0,
              pending |-> <<>>,
              read |-> <<>>]

\* stat fails: readFile returns without reading the file.
VStatFails ==
  /\ ext.todo # <<>>
  /\ ext.pos = 0
  /\ ext' = [ext EXCEPT !.todo = Tail(@)]
  /\ UNCHANGED <<snifferVars, ioVars, log, started>>
  /\ UNCHANGED auxVars

\* rl.on('line') for the next line of the file being read.
VLine ==
  /\ ext.todo # <<>>
  /\ ext.pos < Len(ext.files[Head(ext.todo)])
  /\ LET rec == ext.files[Head(ext.todo)][ext.pos + 1]
     IN ext' = [ext EXCEPT !.pending = validateLine(@, rec),
                           !.pos = @ + 1,
                           !.read = Append(@, rec)]
  /\ UNCHANGED <<snifferVars, ioVars, log, started>>
  /\ UNCHANGED auxVars

\* rl.on('close'): the loop goes on to the next file.
VClose ==
  /\ ext.todo # <<>>
  /\ ext.pos = Len(ext.files[Head(ext.todo)])
  /\ ext' = [ext EXCEPT !.todo = Tail(@), !.pos = 0]
  /\ UNCHANGED <<snifferVars, ioVars, log, started>>
  /\ UNCHANGED auxVars

ValidateNext ==
  \/ VStatFails
  \/ VLine
  \/ VClose

SpecValidate == InitValidate /\ [][ValidateNext]_vars

\* The records of m read so far, and the finals among them, in read order.
ReadOf(m) == SelectSeq(ext.read, LAMBDA r : r.messageId = m)
FinalsReadOf(m) == SelectSeq(ReadOf(m), LAMBDA r : r.stopReason # NULL)

\* C35: the dedup map holds exactly one record for every messageId read
\* and none for the others; the record is a final frame (the last read) if
\* a final frame of the messageId has been read, else the last partial
\* read; and no step puts a partial in the place of a final.
C35_ValidateMapOnePerMessageId ==
  /\ [](\A m \in MIds :
          /\ Cardinality({i \in 1..Len(ext.pending) :
                            ext.pending[i].messageId = m})
               = (IF ReadOf(m) = <<>> THEN 0 ELSE 1)
          /\ ReadOf(m) # <<>> =>
               MapGet(ext.pending, m) =
                 (IF FinalsReadOf(m) # <<>>
                  THEN FinalsReadOf(m)[Len(FinalsReadOf(m))]
                  ELSE ReadOf(m)[Len(ReadOf(m))]))
  /\ [][\A m \in MIds :
          (MapHas(ext.pending, m) /\ MapGet(ext.pending, m).stopReason # NULL)
            => /\ MapHas(ext'.pending, m)
               /\ MapGet(ext'.pending, m).stopReason # NULL]_vars

\* C35 witness: every file has been read; a partial of one messageId was
\* read after its final, and the other messageId has two partials only.
C35_Witness ==
  /\ ext.todo = <<>>
  /\ \E m \in MIds :
       /\ Len(ReadOf(m)) = 2
       /\ ReadOf(m)[1].stopReason # NULL
       /\ ReadOf(m)[2].stopReason = NULL
       /\ MapGet(ext.pending, m) = ReadOf(m)[1]
  /\ \E m \in MIds :
       /\ Len(ReadOf(m)) = 2
       /\ FinalsReadOf(m) = <<>>
       /\ MapGet(ext.pending, m) = ReadOf(m)[2]

(***************************************************************************)
(* Focus time per branch (SpecFocus).                                      *)
(*                                                                         *)
(* ext holds the closure state of activate() that tick() works on: the     *)
(* focusSeconds of every branch session, currentBranch, baseFocus, and the *)
(* PtaFlowEngine objects made so far with the one `engine` refers to; the  *)
(* ActivityAdapter keeps the engine it was constructed with, the first.    *)
(* Events come on whole seconds, so activeMs / 1000 is a whole number and  *)
(* focusSeconds is kept as one.  History: the focusSeconds at activation,  *)
(* the seconds the adapter's engine credited while each branch was the     *)
(* current one, whether an event has been recorded since `engine` was last *)
(* reset or replaced, the seconds credited since the last tick for gaps    *)
(* between two such events, the last handler run, and whether only ticks   *)
(* and events have run so far.                                             *)
(***************************************************************************)
FocusConfig == <<300, 3>>
FocusGaps == {10000, 400000}
StoredFocus == {<<>>, [b \in {"main"} |-> 100]}
AdapterEngine == 1

\* getActiveSeconds() of the engine e, a whole number of seconds here.
ActiveSeconds(e) == getActiveSeconds(e).num \div getActiveSeconds(e).den

getOrCreateFocus(sessions, branch) ==
  IF branch \in DOMAIN sessions THEN sessions ELSE sessions @@ (branch :> 0)

tickWrongNoCapture(x, newBranch) ==
  LET switched == newBranch # x.currentBranch
      y == IF switched
           THEN [x EXCEPT
                   !.currentBranch = newBranch,
                   !.engines[x.engine] = reset(x.engines[x.engine]),
                   !.baseFocus = IF newBranch \in DOMAIN x.sessions
                                 THEN x.sessions[newBranch] ELSE 0]
           ELSE x
      ss == getOrCreateFocus(y.sessions, y.currentBranch)
  IN [y EXCEPT !.sessions =
        [ss EXCEPT ![y.currentBranch] =
           y.baseFocus + ActiveSeconds(y.engines[y.engine])]]

\* tick() once resolver.currentBranch() has answered newBranch.
tick(x, newBranch) ==
  LET switched == newBranch # x.currentBranch
      old == getOrCreateFocus(x.sessions, x.currentBranch)
      y == IF switched
           THEN [x EXCEPT
                   !.sessions =
                      [old EXCEPT ![x.currentBranch] =
                         x.baseFocus + ActiveSeconds(x.engines[x.engine])],
                   !.currentBranch = newBranch,
                   !.engines[x.engine] = reset(x.engines[x.engine]),
                   !.baseFocus = IF newBranch \in DOMAIN old
                                 THEN old[newBranch] ELSE 0]
           ELSE x
      ss == getOrCreateFocus(y.sessions, y.currentBranch)
  IN [y EXCEPT !.sessions =
        [ss EXCEPT ![y.currentBranch] =
           y.baseFocus + ActiveSeconds(y.engines[y.engine])]]

InitFocus ==
  /\ SnifferInit
  /\ AuxInit
  /\ \E ss \in StoredFocus, cur \in Branches :
       ext = [sessions |-> ss,
              currentBranch |-> cur,
              baseFocus |-> IF cur \in DOMAIN ss THEN ss[cur] ELSE 0,
              engines |-> <<NewEngine(FocusConfig)>>,
              engine |-> 1,
              clock |-> StartClock,
              events |-> 0,
              init |-> ss,
              credited |-> [b \in Branches |-> 0],
              sinceTick |-> 0,
              armed |-> FALSE,
              last |-> "activate",
              plain |-> TRUE]

FTick(newBranch) ==
  /\ ext' = [tick(ext, newBranch) EXCEPT
               !.sinceTick = 0,
               !.armed = IF newBranch # ext.currentBranch THEN FALSE ELSE @,
               !.last = "tick"]
  /\ UNCHANGED <<snifferVars, ioVars, log, started>>
  /\ UNCHANGED auxVars

\* ActivityAdapter.fire, `gap` ms after the previous event.
FEvent(gap) ==
  /\ ext.events < MaxFocusEvents
  /\ LET t   == ext.clock + gap
         e   == ext.engines[AdapterEngine]
         f   == recordEvent(e, t)
         sec == ActiveSeconds(f) - ActiveSeconds(e)
     IN ext' = [ext EXCEPT
                  !.engines[AdapterEngine] = f,
                  !.clock = t,
                  !.events = @ + 1,
                  !.credited[ext.currentBranch] = @ + sec,
                  !.sinceTick = IF ext.armed THEN @ + sec ELSE @,
                  !.armed = TRUE,
                  !.last = "event"]
  /\ UNCHANGED <<snifferVars, ioVars, log, started>>
  /\ UNCHANGED auxVars

\* onDidChangeConfiguration for a devvalue setting.
FConfigChange ==
  /\ Len(ext.engines) <= MaxConfigChanges
  /\ ext' = [ext EXCEPT
               !.engines = Append(@, NewEngine(FocusConfig)),
               !.engine = Len(ext.engines) + 1,
               !.sinceTick = 0,
               !.armed = FALSE,
               !.last = "config",
               !.plain = FALSE]
  /\ UNCHANGED <<snifferVars, ioVars, log, started>>
  /\ UNCHANGED auxVars

\* devvalue.resetBranch, and the reset of a branch from the dashboard.
FReset(branch) ==
  /\ ext' = [ext EXCEPT
               !.sessions = [b \in (DOMAIN ext.sessions) \ {branch} |->
                               ext.sessions[b]],
               !.engines[ext.engine] =
                  IF branch = ext.currentBranch THEN reset(@) ELSE @,
               !.baseFocus = IF branch = ext.currentBranch THEN 0 ELSE @,
               !.sinceTick = IF branch = ext.currentBranch THEN 0 ELSE @,
               !.armed = IF branch = ext.currentBranch THEN FALSE ELSE @,
               !.last = "reset",
               !.plain = FALSE]
  /\ UNCHANGED <<snifferVars, ioVars, log, started>>
  /\ UNCHANGED auxVars

\* devvalue.startTracking: engine.reset().
FCmdStart ==
  /\ ext' = [ext EXCEPT !.engines[ext.engine] = reset(@),
                        !.sinceTick = 0,
                        !.armed = FALSE,
                        !.last = "start",
                        !.plain = FALSE]
  /\ UNCHANGED <<snifferVars, ioVars, log, started>>
  /\ UNCHANGED auxVars

FocusNext ==
  \/ \E b \in Branches : FTick(b)
  \/ \E gap \in FocusGaps : FEvent(gap)
  \/ FConfigChange
  \/ \E b \in Branches : FReset(b)
  \/ FCmdStart

SpecFocus == InitFocus /\ [][FocusNext]_vars

FocusAtStart(b) == IF b \in DOMAIN ext.init THEN ext.init[b] ELSE 0
FocusOf(b) == IF b \in DOMAIN ext.sessions THEN ext.sessions[b] ELSE 0

RECURSIVE SumOver(_, _)
SumOver(F(_), S) ==
  IF S = {} THEN 0
  ELSE LET b == CHOOSE x \in S : TRUE IN F(b) + SumOver(F, S \ {b})

CreditedOf(b) == ext.credited[b]

C39_FocusNeverLostAcrossConfigChange ==
  [][ /\ ext'.last # "reset" =>
           \A b \in DOMAIN ext.sessions :
             /\ b \in DOMAIN ext'.sessions
             /\ ext'.sessions[b] >= ext.sessions[b]
      /\ (/\ ext'.last = "tick"
          /\ ext'.currentBranch = ext.currentBranch
          /\ ext.currentBranch \in DOMAIN ext.sessions)
           => ext'.sessions[ext.currentBranch]
                = ext.sessions[ext.currentBranch] + ext.sinceTick ]_vars

====
